---------------------------- MODULE Spec2Model ----------------------------
(***************************************************************************)
(* A model of the JAN live-session core:                                   *)
(*   - LiveAPIProvider (contexts/LiveAPIContext) and GenAILiveClient       *)
(*     (lib/genai-live-client): status machine, transports, transcript;    *)
(*   - buildContextualRequest (services/contextService): tool selection;   *)
(*   - useScreenCapture (lib/useScreenCapture): frame diffing loop;        *)
(*   - AudioRecorder and AudioStreamer: microphone graph, playback queue.  *)
(* The session part is specified by Spec, the capture part by CaptureSpec, *)
(* the playback queue by PlaybackSpec.                                     *)
(***************************************************************************)
EXTENDS Integers, Sequences, FiniteSets, TLC

(* ------------------------------ bounds -------------------------------- *)

\* transports one process may open (calls of client.live.connect)
MaxConnects == 2
\* GenAILiveClient objects the config effect may construct after mount
MaxClients == 2
\* documents listed in the DocumentContext
MaxDocs == 1
\* parts of one inbound model turn
MaxParts == 2
\* characters the transcript accumulator may hold
MaxTextLen == 2
\* completed turns (turnIdRef)
MaxTurns == 2
\* microphone requests awaiting the user's answer
MaxMicPending == 1
\* captureFrame calls counted between two resets of the counters
MaxCaptures == 3
\* pixels of the largest video source
MaxPixels == 3
\* chunks passed to AudioStreamer.addPCM16
MaxChunks == 3
\* events a subscriber of the client's events keeps in its log
MaxEvents == 5
\* audio samples are the multiples of 1/SampleDen in [-1, 1]
SampleDen == 1000
\* microphone streams (graphs, contexts) that an overwritten AudioRecorder
\* handle left running are counted exactly up to MaxLeaked; a count of
\* MaxLeaked stands for MaxLeaked or more
MaxLeaked == 2
\* calls of the client's send operations
MaxSends == 2
\* width and height of the pictures getAdaptiveQuality is applied to
MaxSide == 10
\* the grain of the clock between two ticks of the capture interval, in ms
TimeStep == 250
\* AudioStreamer.stop calls while the gain nodes are tracked
MaxStops == 2

(* ------------------------------ values -------------------------------- *)

Undefined == "undefined"
NoStore == "null"
NoSession == 0
NoSends == [calls |-> 0, sessionCalls |-> <<>>, threw |-> FALSE, last |-> "none"]
NoTurn == [id |-> 0, text |-> <<>>]

Stores == {"storeA", "storeB"}
DocStatuses == {"indexing", "ready", "failed"}
DocLists == UNION {[1..n -> DocStatuses] : n \in 0..MaxDocs}

\* process.env.API_KEY as the build injects it: absent, empty, only quotes,
\* only blanks, or a quoted key with a trailing blank
NoKey == [defined |-> FALSE, chars |-> <<>>]
Key(chars) == [defined |-> TRUE, chars |-> chars]
RawKeys == {NoKey, Key(<<>>), Key(<<"'", "\"">>), Key(<<" ">>),
            Key(<<"'", "k", "'", " ">>)}

\* the optional documents argument of buildContextualRequest
NoDocs == [defined |-> FALSE, list |-> <<>>]
Docs(list) == [defined |-> TRUE, list |-> list]
DocInputs == {NoDocs} \cup {Docs(l) : l \in DocLists}

NoRequest == [built |-> FALSE, ragStore |-> Undefined, documents |-> NoDocs,
              tools |-> <<>>]

\* one part of a model turn: a text part (possibly empty) or inline audio
TextParts == {[kind |-> "text", text |-> <<"A">>], [kind |-> "text", text |-> <<"B">>],
              [kind |-> "text", text |-> <<>>]}
AudioParts == {[kind |-> "audio", text |-> <<>>]}
Parts == TextParts \cup AudioParts
PartLists == UNION {[1..n -> Parts] : n \in 0..MaxParts}

VARIABLES
  envApiKey,         \* process.env.API_KEY
  status,            \* LiveAPIProvider status state
  clientRef,         \* identity of clientRef.current
  config,            \* tools of clientRef.current's LiveConfig
  session,           \* clientRef.current.session (a transport id or NoSession)
  transports,        \* every transport opened so far: [owner, st]
  activeStore,       \* DocumentContext activeStore (its name)
  documents,         \* DocumentContext documents (their statuses)
  request,           \* the last buildContextualRequest call: input and tools
  streamingTextRef,  \* transcript accumulator
  isStreaming,
  turnIdRef,
  lastCompletedTurn,
  isRecording,
  error,
  micPending,        \* getUserMedia calls not yet answered
  keyErrorLogged,    \* console.error("API Key missing or invalid") was run
  connectCalls,      \* history: connect() calls made with a usable key
  pendingDeltas,     \* history: textDelta payloads since the last turnComplete
  awaitingConnect,   \* history: a Connected session was reconfigured and no
                     \* connect() was made since
  mediaDevices,      \* navigator.mediaDevices.getUserMedia exists
  webAudio,          \* the AudioContext constructor exists
  recorder,          \* AudioRecorder: which of its four handles are non-null
  devices,           \* microphone streams with live tracks, connected
                     \* source->processor graphs and open recorder contexts
  audioStreamerRef,  \* audioStreamerRef.current is non-null
  audioQueue,        \* AudioStreamer.audioQueue (chunk numbers)
  isPlaying,
  isStreamComplete,
  bufferTimers,      \* pending initial-buffering timeouts
  playing,           \* buffer sources started and not yet ended
  chunkCount,        \* addPCM16 calls so far; numbers the chunks
  started,           \* history: the chunks started since the last stop()
  idleAdded,         \* history: queued chunks that were added while no
                     \* segment was playing
  gainNode,          \* AudioStreamer.gainNode where the audio graph is
                     \* tracked: the node held, the nodes connected to the
                     \* destination, the nodes ramped to zero, the node each
                     \* started source was connected to, and the pending
                     \* timeouts of stop()
  closedBusy,        \* history: a close handler ran while the microphone was
                     \* recording and chunks were queued
  observer,          \* a subscriber that logs every event of every client is
                     \* registered
  eventLog,          \* history: the events the observer received, in order,
                     \* each with the number of the message that carried it
  dismissed,         \* history: what set a shown error message back to null
                     \* last; kept where the message is watched
  sends,             \* history: the calls of the client's send operations:
                     \* how many were made, the calls they made on a
                     \* session, whether one threw, how the last one ended
  captureConfig,     \* useScreenCapture: DEFAULT_SCREEN_CAPTURE_CONFIG merged
                     \* with the caller's config
  enabled,           \* useScreenCapture: the enabled option
  previousFrameDataRef,
  frameCountRef,
  skippedCountRef,
  lastCapture,       \* history: the last captureFrame call since the counters
                     \* were reset: what it returned, the similarity it
                     \* computed, and the state it started from
  firstCapture,      \* history: how the first captureFrame call with a valid
                     \* source ended since the loop was last enabled
  lastAccepted,      \* history: the pixels of the frame captureFrame accepted
                     \* last since the loop was last enabled or disabled
  sinceActivity,     \* Date.now() - lastActivityRef.current, in ms, saturating
  isIdle,
  currentIntervalMs,
  tickedNow,         \* history: runCaptureLoop has run since time last advanced
  isScreenSharing,   \* App state
  timer,             \* the interval of intervalIdRef and the clock of the
                     \* loop's captureFrame calls, where they are tracked: ms
                     \* to the next tick, ms since the last call, and
                     \* history: the ms between the last two calls
  lastCall           \* history: the last application of compareFrames or of
                     \* the PCM conversions on its own: arguments and result

sessionVars == <<envApiKey, status, clientRef, config, session, transports,
                 activeStore, documents, request, streamingTextRef,
                 isStreaming, turnIdRef, lastCompletedTurn, isRecording, error,
                 micPending, keyErrorLogged, connectCalls,
                 pendingDeltas, awaitingConnect, mediaDevices, webAudio, recorder,
                 devices, audioStreamerRef, audioQueue, isPlaying,
                 isStreamComplete, bufferTimers, playing, chunkCount, started,
                 idleAdded, gainNode, closedBusy, observer, eventLog, sends,
                 dismissed>>

captureVars == <<captureConfig, enabled, previousFrameDataRef, frameCountRef,
                 skippedCountRef, lastCapture, firstCapture, lastAccepted,
                 sinceActivity, isIdle, currentIntervalMs, tickedNow,
                 lastCall, isScreenSharing, timer>>

(* --------------------------- pure helpers ----------------------------- *)

\* String.prototype.replace(/["']/g, "")
StripQuotes(s) == SelectSeq(s, LAMBDA c : c \notin {"\"", "'"})

RECURSIVE TrimStart(_)
TrimStart(s) == IF s # <<>> /\ Head(s) = " " THEN TrimStart(Tail(s)) ELSE s

RECURSIVE TrimEnd(_)
TrimEnd(s) ==
  IF s # <<>> /\ s[Len(s)] = " " THEN TrimEnd(SubSeq(s, 1, Len(s) - 1)) ELSE s

\* getApiKey: process.env.API_KEY?.replace(/["']/g, "").trim()
getApiKey(raw) ==
  IF ~raw.defined THEN NoKey ELSE Key(TrimEnd(TrimStart(StripQuotes(raw.chars))))

\* JavaScript !key for a string or undefined
IsFalsyKey(key) == ~key.defined \/ key.chars = <<>>

\* documents.some(d => d.status === 'ready')
SomeReady(docs) == \E i \in 1..Len(docs) : docs[i] = "ready"

\* a tool entry; metadataFilter is Undefined when the entry carries none
FileSearchTool(store, filter) ==
  [kind |-> "fileSearch", store |-> store, metadataFilter |-> filter]

GoogleSearchTool ==
  [kind |-> "googleSearch", store |-> NoStore, metadataFilter |-> Undefined]

\* mutant of LiveTools: the web-search entry is always attached
LiveTools_AlwaysSearch(store, docs) ==
  IF store # NoStore /\ SomeReady(docs)
  THEN <<FileSearchTool(store, Undefined), GoogleSearchTool>>
  ELSE <<GoogleSearchTool>>

\* LiveAPIProvider config effect: hasRagDocs and the tools array
LiveTools(store, docs) ==
  IF store # NoStore /\ SomeReady(docs)
  THEN <<FileSearchTool(store, Undefined)>>
  ELSE <<GoogleSearchTool>>

\* buildContextualRequest, section 4: the tools array it returns.  ragStore
\* is a store name, null or undefined; docs is a list or absent.
BuildContextualRequestTools(ragStore, docs, filter) ==
  LET hasReadyDocs == IF ~docs.defined THEN FALSE ELSE SomeReady(docs.list)
      hasRagContext == ragStore \notin {Undefined, NoStore} /\ hasReadyDocs
      \* if (input.metadataFilter): an empty filter is not attached
      metadataFilter == IF filter \in {Undefined, ""} THEN Undefined ELSE filter
  IN IF hasRagContext
     THEN Append(<<>>, FileSearchTool(ragStore, metadataFilter))
     ELSE Append(<<>>, GoogleSearchTool)

\* textParts.map(p => p.text).join('') over the parts with a non-empty text
RECURSIVE JoinText(_)
JoinText(parts) ==
  IF parts = <<>> THEN <<>>
  ELSE (IF Head(parts).kind = "text" THEN Head(parts).text ELSE <<>>)
       \o JoinText(Tail(parts))

\* the transcript state the textDelta and turnComplete listeners work on
Transcript == [acc |-> streamingTextRef, streaming |-> isStreaming,
               turnId |-> turnIdRef, last |-> lastCompletedTurn]

\* clientRef.current.on('textDelta', ...)
OnTextDelta(t, delta) ==
  [t EXCEPT !.streaming = TRUE, !.acc = t.acc \o delta]

\* mutant of OnTurnComplete: the accumulator is not cleared
OnTurnComplete_KeepsText(t) ==
  LET finalText == t.acc
      emitted == IF finalText # <<>>
                 THEN [t EXCEPT !.turnId = t.turnId + 1,
                                !.last = [id |-> t.turnId + 1, text |-> finalText]]
                 ELSE t
  IN [emitted EXCEPT !.streaming = FALSE]

\* clientRef.current.on('turnComplete', ...)
OnTurnComplete(t) ==
  LET finalText == t.acc
      emitted == IF finalText # <<>>
                 THEN [t EXCEPT !.turnId = t.turnId + 1,
                                !.last = [id |-> t.turnId + 1, text |-> finalText]]
                 ELSE t
  IN [emitted EXCEPT !.acc = <<>>, !.streaming = FALSE]

\* an event as GenAILiveClient.emit hands it to the listeners: 'content'
\* carries the model turn's parts, 'textDelta' the joined text
ContentEvent(parts) == [type |-> "content", parts |-> parts, text |-> <<>>]
TextDeltaEvent(text) == [type |-> "textDelta", parts |-> <<>>, text |-> text]
TurnCompleteEvent == [type |-> "turnComplete", parts |-> <<>>, text |-> <<>>]

\* mutant of Emitted: the completion marker is handled before the turn
Emitted_CompleteFirst(parts, turnComplete) ==
  (IF turnComplete THEN <<TurnCompleteEvent>> ELSE <<>>)
  \o <<ContentEvent(parts)>>
  \o (IF JoinText(parts) # <<>> THEN <<TextDeltaEvent(JoinText(parts))>> ELSE <<>>)

\* GenAILiveClient onmessage: the events one inbound message with a model
\* turn emits, in order
Emitted(parts, turnComplete) ==
  <<ContentEvent(parts)>>
  \o (IF JoinText(parts) # <<>> THEN <<TextDeltaEvent(JoinText(parts))>> ELSE <<>>)
  \o (IF turnComplete THEN <<TurnCompleteEvent>> ELSE <<>>)

\* GenAILiveClient.emit for each event in turn: the provider's textDelta and
\* turnComplete listeners (its content listener works on the streamer)
RECURSIVE Dispatch(_, _)
Dispatch(t, events) ==
  IF events = <<>> THEN t
  ELSE LET e == Head(events)
           t1 == IF e.type = "textDelta" THEN OnTextDelta(t, e.text)
                 ELSE IF e.type = "turnComplete" THEN OnTurnComplete(t)
                 ELSE t
       IN Dispatch(t1, Tail(events))

\* the transcript after one inbound message
OnMessage(t, parts, turnComplete) == Dispatch(t, Emitted(parts, turnComplete))

\* the observer's log entries for the events of message number msg
Logged(events, msg, id) ==
  [i \in 1..Len(events) |->
     [type |-> events[i].type, parts |-> events[i].parts,
      text |-> events[i].text, msg |-> msg, via |-> id]]

\* the messages the observer has seen so far
MessagesLogged == IF eventLog = <<>> THEN 0 ELSE eventLog[Len(eventLog)].msg

(* ------------------------- session: helpers --------------------------- *)

NoError == "null"
SecureContextError == "Microphone access requires a secure context"
MicPermissionError == "Failed to access microphone. Please check permissions."

TransportIds == 1..Len(transports)

\* session.close() as GenAILiveClient.disconnect calls it: an open transport
\* starts closing; its onclose callback is delivered later
CloseTransport(ts, id) ==
  IF id # NoSession /\ ts[id].st = "open"
  THEN [ts EXCEPT ![id].st = "closing"]
  ELSE ts

\* the variables no session action but the document actions touch
docVars == <<activeStore, documents>>
transcriptVars == <<streamingTextRef, isStreaming, turnIdRef, lastCompletedTurn,
                    pendingDeltas>>
micVars == <<isRecording, error, micPending, recorder, devices, dismissed>>
streamerState == <<audioQueue, isPlaying, isStreamComplete, bufferTimers,
                   playing, chunkCount, started, idleAdded, gainNode>>
streamerVars == <<audioStreamerRef, streamerState>>

(* ----------------------- AudioRecorder, AudioStreamer ------------------ *)

\* the four handles of an AudioRecorder: TRUE for a handle that is held
NoHandles == [stream |-> FALSE, audioContext |-> FALSE, source |-> FALSE,
              processor |-> FALSE]
AllHandles == [stream |-> TRUE, audioContext |-> TRUE, source |-> TRUE,
               processor |-> TRUE]
NoDevices == [streams |-> 0, graphs |-> 0, contexts |-> 0]

\* the devices alive once start() has assigned a new one to its handle: the
\* new one and those no handle refers to any more (nothing ever stops them)
WithNewDevice(count) == (IF count < MaxLeaked THEN count ELSE MaxLeaked) + 1

\* AudioRecorder.start after getUserMedia resolved: a new stream, context,
\* source and processor replace whatever the handles held
AudioRecorderStarted ==
  /\ recorder' = AllHandles
  /\ devices' = [streams |-> WithNewDevice(devices.streams),
                 graphs |-> WithNewDevice(devices.graphs),
                 contexts |-> WithNewDevice(devices.contexts)]

\* mutant of AudioRecorderStop: the microphone tracks are left running
AudioRecorderStop_KeepsTracks ==
  /\ devices' = [streams |-> devices.streams,
                 graphs |-> IF recorder.processor /\ recorder.source
                            THEN devices.graphs - 1 ELSE devices.graphs,
                 contexts |-> IF recorder.audioContext
                              THEN devices.contexts - 1 ELSE devices.contexts]
  /\ recorder' = NoHandles

\* AudioRecorder.stop
AudioRecorderStop ==
  /\ devices' = [streams |-> IF recorder.stream
                             THEN devices.streams - 1 ELSE devices.streams,
                 graphs |-> IF recorder.processor /\ recorder.source
                            THEN devices.graphs - 1 ELSE devices.graphs,
                 contexts |-> IF recorder.audioContext
                              THEN devices.contexts - 1 ELSE devices.contexts]
  /\ recorder' = NoHandles

\* the AudioStreamer's fields, with the history the claims are stated over
Streamer ==
  [audioQueue |-> audioQueue, isPlaying |-> isPlaying,
   isStreamComplete |-> isStreamComplete, bufferTimers |-> bufferTimers,
   playing |-> playing, chunkCount |-> chunkCount, started |-> started,
   idleAdded |-> idleAdded, gainNode |-> gainNode]

\* the audio graph is not tracked; tracked, as the constructor leaves it:
\* createGain() and connect(destination)
Untracked == [tracked |-> FALSE]
NewGain == [tracked |-> TRUE, node |-> 1, connected |-> {1}, ramped |-> {},
            route |-> {}, timers |-> 0]

\* source.connect(this.gainNode) for a chunk
Connected(g, chunk) ==
  IF ~g.tracked THEN g ELSE [g EXCEPT !.route = @ \cup {<<chunk, g.node>>}]

\* gain.linearRampToValueAtTime(0, currentTime + 0.1) and the timeout of
\* 200 ms
Ramped(g) ==
  IF ~g.tracked THEN g
  ELSE [g EXCEPT !.ramped = @ \cup {g.node}, !.timers = @ + 1]

NewStreamer ==
  [audioQueue |-> <<>>, isPlaying |-> FALSE, isStreamComplete |-> FALSE,
   bufferTimers |-> 0, playing |-> {}, chunkCount |-> 0, started |-> <<>>,
   idleAdded |-> {}, gainNode |-> Untracked]

SetStreamer(s) ==
  /\ audioQueue' = s.audioQueue
  /\ isPlaying' = s.isPlaying
  /\ isStreamComplete' = s.isStreamComplete
  /\ bufferTimers' = s.bufferTimers
  /\ playing' = s.playing
  /\ chunkCount' = s.chunkCount
  /\ started' = s.started
  /\ idleAdded' = s.idleAdded
  /\ gainNode' = s.gainNode

\* mutant of addPCM16: a chunk that arrives while isPlaying is set is counted
\* but not queued
addPCM16_SkipsWhilePlaying(s) ==
  LET chunk == s.chunkCount + 1
      queued == [s EXCEPT !.audioQueue = Append(@, chunk),
                          !.chunkCount = chunk,
                          !.idleAdded = IF s.playing = {} THEN @ \cup {chunk}
                                        ELSE @]
  IN IF ~s.isPlaying
     THEN [queued EXCEPT !.isPlaying = TRUE, !.bufferTimers = @ + 1]
     ELSE [s EXCEPT !.chunkCount = chunk]

\* AudioStreamer.addPCM16: the chunk is queued; when nothing is marked as
\* playing, the initial-buffering timeout is set
addPCM16(s) ==
  LET chunk == s.chunkCount + 1
      queued == [s EXCEPT !.audioQueue = Append(@, chunk),
                          !.chunkCount = chunk,
                          !.idleAdded = IF s.playing = {} THEN @ \cup {chunk}
                                        ELSE @]
  IN IF ~s.isPlaying
     THEN [queued EXCEPT !.isPlaying = TRUE, !.bufferTimers = @ + 1]
     ELSE queued

\* mutant of scheduleNextBuffer: the newest chunk is taken (pop, not shift)
scheduleNextBuffer_TakesLast(s) ==
  IF s.audioQueue = <<>>
  THEN IF s.isStreamComplete THEN [s EXCEPT !.isPlaying = FALSE] ELSE s
  ELSE LET audioData == s.audioQueue[Len(s.audioQueue)]
       IN [s EXCEPT !.audioQueue = SubSeq(@, 1, Len(@) - 1),
                    !.playing = @ \cup {audioData},
                    !.started = Append(@, audioData),
                    !.idleAdded = @ \ {audioData},
                    !.gainNode = Connected(@, audioData)]

\* AudioStreamer.scheduleNextBuffer: source.start(0) for the head of the
\* queue
scheduleNextBuffer(s) ==
  IF s.audioQueue = <<>>
  THEN IF s.isStreamComplete THEN [s EXCEPT !.isPlaying = FALSE] ELSE s
  ELSE LET audioData == Head(s.audioQueue)
       IN [s EXCEPT !.audioQueue = Tail(@),
                    !.playing = @ \cup {audioData},
                    !.started = Append(@, audioData),
                    !.idleAdded = @ \ {audioData},
                    !.gainNode = Connected(@, audioData)]

\* AudioStreamer.stop; the sources already started keep playing
AudioStreamerStop(s) ==
  [s EXCEPT !.isPlaying = FALSE, !.isStreamComplete = TRUE,
            !.audioQueue = <<>>, !.started = <<>>, !.idleAdded = {},
            !.gainNode = Ramped(@)]

\* addPCM16 for each of n audio parts
RECURSIVE AddChunks(_, _)
AddChunks(s, n) == IF n = 0 THEN s ELSE AddChunks(addPCM16(s), n - 1)

(* ------------------------- session: operations ------------------------ *)

\* mutant of Connect: the missing-key check is gone
Connect_NoKeyCheck ==
  /\ Len(transports) < MaxConnects
  /\ status' = "connecting"
  /\ transports' = Append(transports, [owner |-> clientRef, st |-> "opening"])
  /\ connectCalls' = connectCalls + 1
  /\ awaitingConnect' = FALSE
  /\ UNCHANGED <<envApiKey, mediaDevices, webAudio, observer, sends, eventLog, closedBusy, clientRef, config, session, request, keyErrorLogged>>
  /\ UNCHANGED <<docVars, transcriptVars, micVars, streamerVars>>

\* LiveAPIProvider.connect
Connect ==
  LET key == getApiKey(envApiKey)
  IN IF IsFalsyKey(key)
     THEN /\ keyErrorLogged' = TRUE
          /\ UNCHANGED <<envApiKey, mediaDevices, webAudio, observer, sends, eventLog, closedBusy, status, clientRef, config, session,
                         transports, request, connectCalls,
                         awaitingConnect>>
          /\ UNCHANGED <<docVars, transcriptVars, micVars, streamerVars>>
     ELSE /\ Len(transports) < MaxConnects
          /\ status' = "connecting"
          \* GenAILiveClient.connect: client.live.connect is pending
          /\ transports' = Append(transports, [owner |-> clientRef, st |-> "opening"])
          /\ connectCalls' = connectCalls + 1
          /\ awaitingConnect' = FALSE
          /\ UNCHANGED <<envApiKey, mediaDevices, webAudio, observer, sends, eventLog, closedBusy, clientRef, config, session, request,
                         keyErrorLogged>>
          /\ UNCHANGED <<docVars, transcriptVars, micVars, streamerVars>>

\* LiveAPIProvider.startRecording up to its await: the playback context, the
\* streamer and the recorder are created when missing, then
\* AudioRecorder.start runs.  Where AudioContext cannot be constructed the
\* first line throws and nothing is created; without
\* navigator.mediaDevices.getUserMedia the recorder throws at once; with it
\* a getUserMedia request is pending
StartRecording ==
  /\ IF ~webAudio /\ ~audioStreamerRef
     THEN error' = MicPermissionError /\ UNCHANGED <<micPending, audioStreamerRef>>
     ELSE /\ audioStreamerRef' = TRUE
          /\ IF mediaDevices
             THEN micPending' = micPending + 1 /\ UNCHANGED error
             ELSE error' = SecureContextError /\ UNCHANGED micPending
  /\ UNCHANGED <<isRecording, recorder, devices, dismissed, streamerState>>

\* mutant of StopRecording: the playback queue is left alone
StopRecording_RecorderOnly ==
  /\ AudioRecorderStop
  /\ isRecording' = FALSE
  /\ UNCHANGED <<error, dismissed, micPending, audioStreamerRef, streamerState>>

\* LiveAPIProvider.stopRecording: recorder.stop(), streamer.stop() for the
\* objects that exist, setIsRecording(false)
StopRecording ==
  /\ AudioRecorderStop
  /\ IF audioStreamerRef
     THEN SetStreamer(AudioStreamerStop(Streamer))
     ELSE UNCHANGED streamerState
  /\ isRecording' = FALSE
  /\ UNCHANGED <<error, dismissed, micPending, audioStreamerRef>>

\* LiveAPIProvider.disconnect: client.disconnect(), stopRecording(),
\* setStatus('disconnected')
Disconnect ==
  /\ transports' = CloseTransport(transports, session)
  /\ session' = NoSession
  /\ StopRecording
  /\ status' = "disconnected"
  /\ UNCHANGED <<envApiKey, mediaDevices, webAudio, observer, sends, eventLog, closedBusy, clientRef, config,
                 request, keyErrorLogged, connectCalls, awaitingConnect>>
  /\ UNCHANGED <<docVars, transcriptVars>>

\* mutant of ToggleConnection: a Connected session is not recognised
ToggleConnection_IgnoresConnected ==
  IF status = "connecting" THEN Disconnect ELSE Connect

\* ChatWidget.toggleConnection
ToggleConnection ==
  IF status \in {"connected", "connecting"} THEN Disconnect ELSE Connect

\* ChatWidget.toggleMic
ToggleMic ==
  IF status = "disconnected"
  THEN Connect
  ELSE /\ IF isRecording
          THEN StopRecording
          ELSE micPending < MaxMicPending /\ StartRecording
       /\ UNCHANGED <<envApiKey, mediaDevices, webAudio, observer, sends, eventLog, closedBusy, status, clientRef, config, session, transports,
                      request, keyErrorLogged, connectCalls, awaitingConnect>>
       /\ UNCHANGED <<docVars, transcriptVars>>

\* mutant of MicGranted: the message of an earlier failure is kept
MicGranted_KeepsError ==
  /\ micPending > 0
  /\ micPending' = micPending - 1
  /\ AudioRecorderStarted
  /\ isRecording' = TRUE
  /\ UNCHANGED <<error, dismissed>>
  /\ UNCHANGED <<envApiKey, mediaDevices, webAudio, observer, sends, eventLog, closedBusy, status, clientRef, config, session, transports,
                 request, keyErrorLogged, connectCalls, awaitingConnect>>
  /\ UNCHANGED <<docVars, transcriptVars, streamerVars>>

\* the user answers a pending getUserMedia request: AudioRecorder.start
\* finishes and startRecording resumes after its await
MicGranted ==
  /\ micPending > 0
  /\ micPending' = micPending - 1
  /\ AudioRecorderStarted
  /\ isRecording' = TRUE
  /\ error' = NoError
  /\ dismissed' = IF error # NoError /\ dismissed # "unwatched"
                   THEN "startRecording" ELSE dismissed
  /\ UNCHANGED <<envApiKey, mediaDevices, webAudio, observer, sends, eventLog, closedBusy, status, clientRef, config, session, transports,
                 request, keyErrorLogged, connectCalls, awaitingConnect>>
  /\ UNCHANGED <<docVars, transcriptVars, streamerVars>>

\* clearError: setError(null)
ClearError ==
  /\ error' = NoError
  /\ dismissed' = IF error # NoError /\ dismissed # "unwatched"
                   THEN "clearError" ELSE dismissed
  /\ UNCHANGED <<isRecording, micPending, recorder, devices>>
  /\ UNCHANGED <<envApiKey, mediaDevices, webAudio, observer, sends, eventLog, closedBusy, status, clientRef, config, session, transports,
                 request, keyErrorLogged, connectCalls, awaitingConnect>>
  /\ UNCHANGED <<docVars, transcriptVars, streamerVars>>

\* mutant of MicDenied: the failure is swallowed
MicDenied_NoMessage ==
  /\ micPending > 0
  /\ micPending' = micPending - 1
  /\ UNCHANGED <<isRecording, recorder, devices, error, dismissed>>
  /\ UNCHANGED <<envApiKey, mediaDevices, webAudio, observer, sends, eventLog, closedBusy, status,
                 clientRef, config, session, transports, request,
                 keyErrorLogged, connectCalls, awaitingConnect>>
  /\ UNCHANGED <<docVars, transcriptVars, streamerVars>>

\* the user or the browser refuses a pending getUserMedia request:
\* AudioRecorder.start rethrows and startRecording sets the error message
MicDenied ==
  /\ micPending > 0
  /\ micPending' = micPending - 1
  /\ error' = MicPermissionError
  /\ UNCHANGED <<isRecording, recorder, devices, dismissed>>
  /\ UNCHANGED <<envApiKey, mediaDevices, webAudio, observer, sends, eventLog, closedBusy, status, clientRef, config, session, transports,
                 request, keyErrorLogged, connectCalls, awaitingConnect>>
  /\ UNCHANGED <<docVars, transcriptVars, streamerVars>>

\* mutant of TransportOpen: the open listener only sets the status
TransportOpen_StatusOnly(id) ==
  /\ transports[id].st = "opening"
  /\ transports' = [transports EXCEPT ![id].st = "open"]
  /\ status' = "connected"
  /\ session' = IF transports[id].owner = clientRef THEN id ELSE session
  /\ UNCHANGED <<envApiKey, mediaDevices, webAudio, observer, sends, eventLog, closedBusy, clientRef,
                 config, request, keyErrorLogged, connectCalls,
                 awaitingConnect>>
  /\ UNCHANGED <<docVars, transcriptVars, micVars, streamerVars>>

\* transport acknowledges the open: the onopen callback emits 'open' (the
\* provider sets Connected and starts recording), then client.live.connect
\* resolves and the owning client stores the session
TransportOpen(id) ==
  /\ transports[id].st = "opening"
  /\ transports' = [transports EXCEPT ![id].st = "open"]
  /\ status' = "connected"
  /\ StartRecording
  /\ session' = IF transports[id].owner = clientRef THEN id ELSE session
  /\ UNCHANGED <<envApiKey, mediaDevices, webAudio, observer, sends, eventLog, closedBusy, clientRef, config, request, keyErrorLogged,
                 connectCalls, awaitingConnect>>
  /\ UNCHANGED <<docVars, transcriptVars>>

\* the onerror callback emits 'error'; the provider registers no listener
\* for it
TransportError(id) ==
  /\ transports[id].st \in {"opening", "open"}
  /\ transports' = [transports EXCEPT ![id].st = "errored"]
  /\ UNCHANGED <<envApiKey, mediaDevices, webAudio, observer, sends, eventLog, closedBusy, status, clientRef, config, session, request,
                 keyErrorLogged, connectCalls, awaitingConnect>>
  /\ UNCHANGED <<docVars, transcriptVars, micVars, streamerVars>>

\* mutant of TransportClose: the close listener leaves the status alone
TransportClose_KeepsStatus(id) ==
  /\ transports[id].st \in {"open", "closing", "errored"}
  /\ transports' = [transports EXCEPT ![id].st = "closed"]
  /\ UNCHANGED status
  /\ StopRecording
  /\ closedBusy' = (closedBusy \/ (isRecording /\ audioQueue # <<>>))
  /\ UNCHANGED <<envApiKey, mediaDevices, webAudio, observer, sends, eventLog, clientRef, config, session, request,
                 keyErrorLogged, connectCalls, awaitingConnect>>
  /\ UNCHANGED <<docVars, transcriptVars>>

\* the onclose callback (remote close, close after an error, or the close
\* the client asked for) emits 'close': setStatus('disconnected'),
\* stopRecording()
TransportClose(id) ==
  /\ transports[id].st \in {"open", "closing", "errored"}
  /\ transports' = [transports EXCEPT ![id].st = "closed"]
  /\ status' = "disconnected"
  /\ StopRecording
  /\ closedBusy' = (closedBusy \/ (isRecording /\ audioQueue # <<>>))
  /\ UNCHANGED <<envApiKey, mediaDevices, webAudio, observer, sends, eventLog, clientRef, config, session, request,
                 keyErrorLogged, connectCalls, awaitingConnect>>
  /\ UNCHANGED <<docVars, transcriptVars>>

\* the onmessage callback for one inbound message carrying a model turn
\* with these parts and, possibly, the turn-complete marker
Message(id, parts, turnComplete) ==
  /\ transports[id].st = "open"
  /\ LET t == OnMessage(Transcript, parts, turnComplete)
         textDelta == JoinText(parts)
     IN /\ Len(streamingTextRef) + Len(textDelta) <= MaxTextLen
        /\ t.turnId <= MaxTurns
        /\ streamingTextRef' = t.acc
        /\ isStreaming' = t.streaming
        /\ turnIdRef' = t.turnId
        /\ lastCompletedTurn' = t.last
        /\ pendingDeltas' =
             IF turnComplete THEN <<>>
             ELSE IF textDelta # <<>> THEN Append(pendingDeltas, textDelta)
             ELSE pendingDeltas
  \* the 'content' listener: every audio part goes to the streamer, if any
  /\ LET audioParts == SelectSeq(parts, LAMBDA part : part.kind = "audio")
     IN IF audioStreamerRef /\ audioParts # <<>>
        THEN /\ chunkCount + Len(audioParts) <= MaxChunks
             /\ SetStreamer(AddChunks(Streamer, Len(audioParts)))
        ELSE UNCHANGED streamerState
  \* the observer's listeners
  /\ IF observer
     THEN /\ Len(eventLog) + Len(Emitted(parts, turnComplete)) <= MaxEvents
          /\ eventLog' = eventLog \o Logged(Emitted(parts, turnComplete),
                                             MessagesLogged + 1, id)
     ELSE UNCHANGED eventLog
  /\ UNCHANGED <<envApiKey, mediaDevices, webAudio, observer, sends, closedBusy,
                 status, clientRef, config, session, transports, request,
                 keyErrorLogged, connectCalls, awaitingConnect>>
  /\ UNCHANGED <<docVars, micVars, audioStreamerRef>>

\* mutant of Reconfigure: the new client starts its turn ids over
Reconfigure_ResetsTurnId(store, docs) ==
  /\ clientRef <= MaxClients
  /\ activeStore' = store
  /\ documents' = docs
  /\ transports' = CloseTransport(transports, session)
  /\ session' = NoSession
  /\ clientRef' = clientRef + 1
  /\ config' = LiveTools(store, docs)
  /\ status' = "disconnected"
  /\ StopRecording
  /\ awaitingConnect' = (awaitingConnect \/ status = "connected")
  /\ UNCHANGED <<envApiKey, mediaDevices, webAudio, observer, sends, eventLog, closedBusy, request, keyErrorLogged,
                 connectCalls>>
  /\ turnIdRef' = 0
  /\ UNCHANGED <<streamingTextRef, isStreaming, lastCompletedTurn,
                 pendingDeltas>>

\* the DocumentContext publishes a new activeStore or documents value and
\* the provider's config effect runs: the previous effect's cleanup
\* (disconnect()), then a new client with the rebuilt tools
Reconfigure(store, docs) ==
  /\ clientRef <= MaxClients
  /\ activeStore' = store
  /\ documents' = docs
  /\ transports' = CloseTransport(transports, session)
  /\ session' = NoSession
  /\ clientRef' = clientRef + 1
  /\ config' = LiveTools(store, docs)
  /\ status' = "disconnected"
  /\ StopRecording
  /\ awaitingConnect' = (awaitingConnect \/ status = "connected")
  /\ UNCHANGED <<envApiKey, mediaDevices, webAudio, observer, sends, eventLog, closedBusy, request, keyErrorLogged,
                 connectCalls>>
  /\ UNCHANGED transcriptVars

\* generateChatResponse builds a request for a chat surface
BuildRequest(ragStore, docs, filter) ==
  /\ request' = [built |-> TRUE, ragStore |-> ragStore, documents |-> docs,
                 tools |-> BuildContextualRequestTools(ragStore, docs, filter)]
  /\ UNCHANGED <<envApiKey, mediaDevices, webAudio, observer, sends, eventLog, closedBusy, status, clientRef, config, session, transports,
                 keyErrorLogged, connectCalls, awaitingConnect>>
  /\ UNCHANGED <<docVars, transcriptVars, micVars, streamerVars>>

(* ------------------------- playback: operations ----------------------- *)

\* what the streamer's own operations leave alone
providerState == <<envApiKey, status, clientRef, config, session, transports,
                   request, keyErrorLogged, connectCalls, awaitingConnect,
                   mediaDevices, webAudio, closedBusy, observer, eventLog,
                   docVars, transcriptVars, micVars, audioStreamerRef>>

providerVars == <<providerState, sends>>

\* AudioStreamer.addPCM16 with one chunk
AddPCM16 ==
  /\ audioStreamerRef
  /\ chunkCount < MaxChunks
  /\ SetStreamer(addPCM16(Streamer))
  /\ UNCHANGED providerVars

\* an initial-buffering timeout fires: scheduleNextBuffer
BufferTimerFires ==
  /\ bufferTimers > 0
  /\ SetStreamer(scheduleNextBuffer([Streamer EXCEPT !.bufferTimers = @ - 1]))
  /\ UNCHANGED providerVars

\* a started source plays to its end: its onended runs scheduleNextBuffer
SegmentEnds(chunk) ==
  /\ chunk \in playing
  /\ SetStreamer(scheduleNextBuffer([Streamer EXCEPT !.playing = @ \ {chunk}]))
  /\ UNCHANGED providerVars

\* AudioStreamer.stop
StopPlayback ==
  /\ audioStreamerRef
  /\ gainNode.tracked => gainNode.node + gainNode.timers <= MaxStops
  /\ SetStreamer(AudioStreamerStop(Streamer))
  /\ UNCHANGED providerVars

\* a timeout of stop() fires: the node held now is disconnected and a new
\* one is created and connected
GainTimerFires ==
  /\ gainNode.tracked
  /\ gainNode.timers > 0
  /\ gainNode' = [gainNode EXCEPT !.timers = @ - 1,
                                  !.node = @ + 1,
                                  !.connected = (@ \ {gainNode.node})
                                                  \cup {gainNode.node + 1}]
  /\ UNCHANGED <<audioQueue, isPlaying, isStreamComplete, bufferTimers,
                 playing, chunkCount, started, idleAdded>>
  /\ UNCHANGED providerVars

(* ------------------------ session: specification ---------------------- *)

\* one call made on the session object the client holds; mimeType is that
\* of the media chunk passed, if any
SessionCall(op, mimeType) == [to |-> session, op |-> op, mimeType |-> mimeType]

NoMedia == "none"
AudioMimeType == "audio/pcm;rate=16000"
ImageMimeType == "image/jpeg"

RECURSIVE Repeat(_, _)
Repeat(x, n) == IF n = 0 THEN <<>> ELSE <<x>> \o Repeat(x, n - 1)

\* this.session?.<op>(...) run once per element of calls: with no session
\* the optional chain evaluates to undefined and nothing is called
OnSession(s, calls) ==
  IF session # NoSession
  THEN [s EXCEPT !.sessionCalls = @ \o calls, !.last = "sent"]
  ELSE [s EXCEPT !.last = "dropped"]

\* mutant of sendText: this.session.send(...) without the optional chain
sendText_Unchecked(s) ==
  IF session # NoSession
  THEN [s EXCEPT !.sessionCalls = @ \o <<SessionCall("send", NoMedia)>>, !.last = "sent"]
  ELSE [s EXCEPT !.threw = TRUE, !.last = "threw"]

sendText(s) == OnSession(s, <<SessionCall("send", NoMedia)>>)

\* chunks: the mime types of the chunks passed
sendRealtimeInput(s, chunks) ==
  OnSession(s, [i \in 1..Len(chunks) |->
                  SessionCall("sendRealtimeInput", chunks[i])])

sendToolResponse(s) == OnSession(s, <<SessionCall("sendToolResponse", NoMedia)>>)

\* a caller holding clientRef.current calls one of its send operations
Sending(after) ==
  /\ sends.calls < MaxSends
  /\ Len(after.sessionCalls) <= MaxSends
  /\ sends' = [after EXCEPT !.calls = @ + 1]
  /\ UNCHANGED <<providerState, streamerState>>

SendText == Sending(sendText(sends))

\* chunks many audio chunks, as the recorder's data listener passes them
SendRealtimeInput(chunks) ==
  Sending(sendRealtimeInput(sends, Repeat(AudioMimeType, chunks)))

\* App.handleScreenFrame for a frame with data: one image chunk
handleScreenFrame(s) ==
  [sendRealtimeInput(s, <<ImageMimeType>>) EXCEPT !.calls = @ + 1]

RECURSIVE ForwardFrames(_, _)
ForwardFrames(s, frames) ==
  IF frames = 0 THEN s ELSE handleScreenFrame(ForwardFrames(s, frames - 1))

\* onFrame called for the frames the capture loop produced in this step
Forward(frames) ==
  /\ sends.calls + frames <= MaxSends
  /\ sends' = ForwardFrames(sends, frames)
  /\ UNCHANGED <<providerState, streamerState>>

SendToolResponse == Sending(sendToolResponse(sends))

\* the provider after mount, with the audio graph g
SessionStart(g) ==
  /\ envApiKey \in RawKeys
  /\ status = "disconnected"
  /\ clientRef = 1
  /\ config = LiveTools(NoStore, <<>>)
  /\ session = NoSession
  /\ transports = <<>>
  /\ activeStore = NoStore
  /\ documents = <<>>
  /\ request = NoRequest
  /\ streamingTextRef = <<>>
  /\ isStreaming = FALSE
  /\ turnIdRef = 0
  /\ lastCompletedTurn = NoTurn
  /\ isRecording = FALSE
  /\ error = NoError
  /\ micPending = 0
  /\ keyErrorLogged = FALSE
  /\ connectCalls = 0
  /\ pendingDeltas = <<>>
  /\ awaitingConnect = FALSE
  /\ mediaDevices \in BOOLEAN
  /\ webAudio \in BOOLEAN
  /\ recorder = NoHandles
  /\ devices = NoDevices
  /\ audioStreamerRef \in BOOLEAN
  /\ audioQueue = NewStreamer.audioQueue
  /\ isPlaying = NewStreamer.isPlaying
  /\ isStreamComplete = NewStreamer.isStreamComplete
  /\ bufferTimers = NewStreamer.bufferTimers
  /\ playing = NewStreamer.playing
  /\ chunkCount = NewStreamer.chunkCount
  /\ started = NewStreamer.started
  /\ idleAdded = NewStreamer.idleAdded
  /\ gainNode = g
  /\ closedBusy = FALSE
  /\ observer \in BOOLEAN
  /\ eventLog = <<>>
  /\ sends = NoSends
  /\ dismissed \in {"unwatched", "none"}

SessionInit == SessionStart(Untracked)

\* the environments the specifications draw the operations' inputs from
StoreInputs == Stores \cup {NoStore}
SomeDocSettings == {<<NoStore, <<>>>>, <<"storeA", <<"ready">>>>}
AllDocSettings == StoreInputs \X DocLists

\* the connection life cycle: the widget, the microphone prompt, the
\* transport and the document context, in a secure context
SessionNext ==
  \/ ToggleConnection
  \/ ToggleMic
  \/ MicGranted
  \/ MicDenied
  \/ \E id \in TransportIds : TransportOpen(id)
  \/ \E id \in TransportIds : TransportError(id)
  \/ \E id \in TransportIds : TransportClose(id)
  \/ \E d \in SomeDocSettings : Reconfigure(d[1], d[2])

\* the connection life cycle with a user who grants every microphone request
GrantingNext ==
  \/ ToggleConnection
  \/ ToggleMic
  \/ MicGranted
  \/ \E id \in TransportIds : TransportOpen(id)
  \/ \E id \in TransportIds : TransportError(id)
  \/ \E id \in TransportIds : TransportClose(id)
  \/ \E d \in SomeDocSettings : Reconfigure(d[1], d[2])

\* inbound messages of every shape over sessions that open, close and are
\* reconfigured
TranscriptNext ==
  \/ ToggleConnection
  \/ \E id \in TransportIds : TransportOpen(id)
  \/ \E id \in TransportIds : TransportClose(id)
  \/ \E id \in TransportIds, parts \in PartLists, tc \in BOOLEAN :
       Message(id, parts, tc)
  \/ Reconfigure(NoStore, <<>>)

\* the microphone and the playback queue under a session: the widget, the
\* microphone prompt, the transport, inbound audio and the playback events
AudioParts1 == {<<[kind |-> "audio", text |-> <<>>]>>}

AudioNext ==
  \/ ToggleConnection
  \/ ToggleMic
  \/ MicGranted
  \/ MicDenied
  \/ \E id \in TransportIds : TransportOpen(id)
  \/ \E id \in TransportIds : TransportClose(id)
  \/ \E id \in TransportIds, parts \in AudioParts1 : Message(id, parts, FALSE)
  \/ BufferTimerFires
  \/ \E chunk \in playing : SegmentEnds(chunk)

\* model turns with text only, with an empty text part, with audio before
\* text, and with two audio parts
EventPartLists ==
  {<<[kind |-> "text", text |-> <<"A">>]>>,
   <<[kind |-> "text", text |-> <<>>]>>,
   <<[kind |-> "audio", text |-> <<>>], [kind |-> "text", text |-> <<"B">>]>>,
   <<[kind |-> "audio", text |-> <<>>], [kind |-> "audio", text |-> <<>>]>>}

\* inbound messages, with and without the completion marker, seen by an
\* observer of the events
EventsNext ==
  \/ ToggleConnection
  \/ \E id \in TransportIds : TransportOpen(id)
  \/ \E id \in TransportIds, parts \in EventPartLists, tc \in BOOLEAN :
       Message(id, parts, tc)

\* the playback queue on its own: every interleaving of its operations and
\* callbacks
PlaybackNext ==
  \/ AddPCM16
  \/ StopPlayback
  \/ BufferTimerFires
  \/ \E chunk \in playing : SegmentEnds(chunk)

\* the playback queue and the timeouts of stop()
GainNext ==
  \/ AddPCM16
  \/ StopPlayback
  \/ BufferTimerFires
  \/ \E chunk \in playing : SegmentEnds(chunk)
  \/ GainTimerFires

\* tool selection: every document setting and every request input
ToolsNext ==
  \/ \E d \in AllDocSettings : Reconfigure(d[1], d[2])
  \/ \E ragStore \in StoreInputs \cup {Undefined}, docs \in DocInputs,
        filter \in {Undefined, "", "author"} :
       BuildRequest(ragStore, docs, filter)

(* ------------------------- capture: helpers --------------------------- *)

\* null for previousFrameDataRef.current
NoData == <<>>

\* RGBA pixels: black, a grey within the tolerance of black, a green
\* outside the tolerance of black but within that of the grey, and a
\* transparent black
Colours == {<<0, 0, 0, 255>>, <<10, 10, 10, 255>>, <<0, 11, 0, 255>>, <<0, 0, 0, 0>>}

\* the flat RGBA buffer getImageData returns for these pixels
RECURSIVE ImageData(_)
ImageData(pixels) ==
  IF pixels = <<>> THEN <<>> ELSE Head(pixels) \o ImageData(Tail(pixels))

\* what videoRef.current shows at a capture: no element, an element that has
\* no dimensions yet, or a picture of width x height pixels
NoVideo == [present |-> FALSE, width |-> 0, height |-> 0, data |-> <<>>]
Dimensions == {<<2, 1>>, <<1, 3>>, <<3, 1>>, <<2, 2>>}
Pictures ==
  {[present |-> TRUE, width |-> d[1], height |-> d[2], data |-> ImageData(px)] :
     <<d, px>> \in {<<d, px>> \in Dimensions \X
                      UNION {[1..n -> Colours] : n \in 1..MaxPixels} :
                        d[1] * d[2] = Len(px) /\ Len(px) <= MaxPixels}}
EmptyVideos == {[present |-> TRUE, width |-> 0, height |-> 1, data |-> <<>>],
                [present |-> TRUE, width |-> 2, height |-> 0, data |-> <<>>]}
Sources == {NoVideo} \cup EmptyVideos \cup Pictures

ValidSource(src) == src.present /\ src.width # 0 /\ src.height # 0

\* DEFAULT_SCREEN_CAPTURE_CONFIG; fractions are <<numerator, denominator>>
DefaultConfig == [minIntervalMs |-> 500, maxIntervalMs |-> 2000,
                  idleTimeoutMs |-> 3000, diffThreshold |-> <<95, 100>>,
                  jpegQuality |-> <<75, 100>>, diffSampleSize |-> 100]

\* the config App passes, merged over the default
AppConfig == [DefaultConfig EXCEPT !.minIntervalMs = 750,
                                   !.diffThreshold = <<92, 100>>]

\* a caller's config that makes the sampling stride and the threshold bite
\* on small pictures
CoarseConfig == [DefaultConfig EXCEPT !.diffThreshold = <<1, 2>>,
                                      !.diffSampleSize = 2]

Configs == {DefaultConfig, AppConfig, CoarseConfig}

Abs(x) == IF x < 0 THEN -x ELSE x
Min(a, b) == IF a < b THEN a ELSE b

\* a similarity score as a fraction
Score(num, den) == [num |-> num, den |-> den]

\* a >= b on fractions with positive denominators
AtLeast(a, b) == a.num * b[2] >= b[1] * a.den

\* mutant of compareFrames: the alpha channel is compared too
compareFrames_WithAlpha(currentData, previousData, width, height, diffSampleSize) ==
  IF Len(currentData) # Len(previousData) THEN Score(0, 1)
  ELSE LET sampleSize == Min(diffSampleSize, width * height)
           step == (width * height) \div sampleSize
           tolerance == 10
           Matches(i) ==
             LET pixelIndex == (i * step) * 4
             IN \A ch \in 1..4 :
                  Abs(currentData[pixelIndex + ch] - previousData[pixelIndex + ch]) <= tolerance
           matchCount == Cardinality({i \in 0..(sampleSize - 1) : Matches(i)})
       IN Score(matchCount, sampleSize)

\* compareFrames; JavaScript indexes from 0, the sequences here from 1
compareFrames(currentData, previousData, width, height, diffSampleSize) ==
  IF Len(currentData) # Len(previousData) THEN Score(0, 1)
  ELSE LET sampleSize == Min(diffSampleSize, width * height)
           step == (width * height) \div sampleSize
           tolerance == 10
           Matches(i) ==
             LET pixelIndex == (i * step) * 4
             IN /\ Abs(currentData[pixelIndex + 1] - previousData[pixelIndex + 1]) <= tolerance
                /\ Abs(currentData[pixelIndex + 2] - previousData[pixelIndex + 2]) <= tolerance
                /\ Abs(currentData[pixelIndex + 3] - previousData[pixelIndex + 3]) <= tolerance
           matchCount == Cardinality({i \in 0..(sampleSize - 1) : Matches(i)})
       IN Score(matchCount, sampleSize)

\* mutant of IsKeyFrame: a frame exactly at the threshold is kept
IsKeyFrame_AtThreshold(similarity, diffThreshold) ==
  ~AtLeast(similarity, diffThreshold) \/
    similarity.num * diffThreshold[2] = diffThreshold[1] * similarity.den

\* isKeyFrame = similarity < config.diffThreshold
IsKeyFrame(similarity, diffThreshold) == ~AtLeast(similarity, diffThreshold)

\* the refs captureFrame works on, with the history of its calls
CaptureState ==
  [previousFrameData |-> previousFrameDataRef, frameCount |-> frameCountRef,
   skippedCount |-> skippedCountRef, lastCapture |-> lastCapture,
   firstCapture |-> firstCapture, lastAccepted |-> lastAccepted]

SetCaptureState(c) ==
  /\ previousFrameDataRef' = c.previousFrameData
  /\ frameCountRef' = c.frameCount
  /\ skippedCountRef' = c.skippedCount
  /\ lastCapture' = c.lastCapture
  /\ firstCapture' = c.firstCapture
  /\ lastAccepted' = c.lastAccepted

\* the record of a captureFrame call made in state c: result is "null" or
\* "frame"
Returned(c, result, isKeyFrame, similarity, valid) ==
  [result |-> result, isKeyFrame |-> isKeyFrame, similarity |-> similarity,
   valid |-> valid, hadBaseline |-> c.previousFrameData # NoData,
   frames |-> c.frameCount, skips |-> c.skippedCount]

NoCapture == [result |-> "none", isKeyFrame |-> FALSE, similarity |-> Score(0, 1),
              valid |-> FALSE, hadBaseline |-> FALSE, frames |-> 0, skips |-> 0]

NoCall == [fn |-> "none"]

\* mutant of ShouldBeIdle: idle from the timeout on
ShouldBeIdle_AtTimeout(timeSinceActivity, idleTimeoutMs) ==
  timeSinceActivity >= idleTimeoutMs

\* shouldBeIdle = timeSinceActivity > config.idleTimeoutMs
ShouldBeIdle(timeSinceActivity, idleTimeoutMs) ==
  timeSinceActivity > idleTimeoutMs

(* --------------------------- PCM conversion --------------------------- *)

\* Math.trunc of num/den for den > 0, as ToInt16 drops the fraction
Trunc(num, den) == IF num >= 0 THEN num \div den ELSE -((-num) \div den)

\* DataView.setInt16(offset, value, true): ToInt16, low byte first
SetInt16(value) ==
  LET int16 == value % 65536
  IN <<int16 % 256, int16 \div 256>>

\* DataView.getInt16(offset, true)
GetInt16(bytes) ==
  LET uint16 == bytes[1] + 256 * bytes[2]
  IN IF uint16 >= 32768 THEN uint16 - 65536 ELSE uint16

\* AudioRecorder.floatTo16BitPCM for one sample input/SampleDen: clamp to
\* [-1, 1], scale by 0x8000 below zero and by 0x7FFF otherwise, store
floatTo16BitPCM(input) ==
  LET clamped == IF input < -SampleDen THEN -SampleDen
                 ELSE IF input > SampleDen THEN SampleDen ELSE input
      scaled == IF clamped < 0 THEN clamped * 32768 ELSE clamped * 32767
  IN SetInt16(Trunc(scaled, SampleDen))

\* the conversion at the head of AudioStreamer.addPCM16: int16 / 32768, as
\* a fraction
pcm16ToFloat(chunk) == Score(GetInt16(chunk), 32768)

\* compareFrames on its own, as captureFrame calls it: the canvas has the
\* size of the current picture, the previous buffer is one accepted earlier
CompareFrames(current, previous) ==
  /\ lastCall' = [fn |-> "compareFrames", currentData |-> current.data,
                   previousData |-> previous.data, width |-> current.width,
                   height |-> current.height,
                   result |-> compareFrames(current.data, previous.data,
                                            current.width, current.height,
                                            captureConfig.diffSampleSize)]
  /\ UNCHANGED <<captureConfig, isScreenSharing, timer, enabled, previousFrameDataRef, frameCountRef,
                 skippedCountRef, lastCapture, firstCapture, lastAccepted,
                 sinceActivity, isIdle, currentIntervalMs, tickedNow>>

\* one comparison in a behaviour
CompareNext ==
  /\ lastCall = NoCall
  /\ \E current \in Pictures, previous \in Pictures :
       CompareFrames(current, previous)

\* the round trip of one sample through the recorder's encoder and the
\* streamer's decoder
PcmRoundTrip(input) ==
  /\ lastCall' = [fn |-> "pcm", sample |-> input,
                   encoded |-> floatTo16BitPCM(input),
                   decoded |-> pcm16ToFloat(floatTo16BitPCM(input))]
  /\ UNCHANGED <<captureConfig, isScreenSharing, timer, enabled, previousFrameDataRef, frameCountRef,
                 skippedCountRef, lastCapture, firstCapture, lastAccepted,
                 sinceActivity, isIdle, currentIntervalMs, tickedNow>>

\* every sample of the grid, and samples beyond the range
Samples == (-SampleDen - 1)..(SampleDen + 1)

PcmNext == \E input \in Samples : PcmRoundTrip(input)

(* --------------------------- JPEG quality ----------------------------- *)

\* jpegQuality: number | 'auto'; a number is <<numerator, denominator>>
Auto == <<"auto">>

AutoConfig == [DefaultConfig EXCEPT !.jpegQuality = Auto]

\* a caller's config with a fixed quality other than the default
CrispConfig == [DefaultConfig EXCEPT !.jpegQuality = <<9, 10>>]

QualityConfigs == {AppConfig, AutoConfig, CrispConfig}

\* for (let i = 1; i < sampleSize - 1; i++)
SampledPairs(sampleSize) == 1..(sampleSize - 2)

\* the red channel of the pixel at i * step and of the one after it differ
\* by more than 30; JavaScript indexes from 0, the sequences here from 1
IsEdge(imageData, step, i) ==
  LET pixelIndex == (i * step) * 4
      nextPixelIndex == ((i * step) + 1) * 4
      diff == Abs(imageData[pixelIndex + 1] - imageData[nextPixelIndex + 1])
  IN diff > 30

\* getAdaptiveQuality; edgeRatio = edgeCount / sampleSize is compared as a
\* fraction
getAdaptiveQuality(imageData, width, height, jpegQuality) ==
  IF jpegQuality # Auto THEN jpegQuality
  ELSE LET sampleSize == 50
           step == (width * height) \div sampleSize
           edgeCount == Cardinality({i \in SampledPairs(sampleSize) :
                                       IsEdge(imageData, step, i)})
       IN IF edgeCount * 10 > 3 * sampleSize THEN <<85, 100>>
          ELSE IF edgeCount * 100 > 15 * sampleSize THEN <<75, 100>>
          ELSE <<65, 100>>

\* a black picture of MaxSide x MaxSide pixels in which the pixels after the
\* sampled ones numbered lo..hi have the given level of red, green and blue
Striped(lo, hi, level) ==
  LET size == MaxSide * MaxSide
      step == size \div 50
      Lit(p) == \E i \in lo..hi : p = i * step + 1
  IN [present |-> TRUE, width |-> MaxSide, height |-> MaxSide,
      data |-> ImageData([p \in 1..size |->
                            IF Lit(p - 1) THEN <<level, level, level, 255>>
                            ELSE <<0, 0, 0, 255>>])]

\* a picture smaller than the sample size: black, then a pixel of the level
Tiny(level) ==
  [present |-> TRUE, width |-> 2, height |-> 1,
   data |-> ImageData(<<<<0, 0, 0, 255>>, <<level, level, level, 255>>>>)]

\* levels at the edge threshold, beyond it, and white
Levels == {30, 31, 255}

QualityPictures ==
  {Striped(lo, hi, level) :
     <<lo, hi, level>> \in {<<lo, hi, level>> \in (1..48) \X (0..48) \X Levels :
                              lo <= hi + 1}}
  \cup {Tiny(level) : level \in Levels}

\* getAdaptiveQuality on its own, as captureFrame calls it for an accepted
\* frame
GetAdaptiveQuality(picture) ==
  /\ lastCall' = [fn |-> "getAdaptiveQuality", imageData |-> picture.data,
                   width |-> picture.width, height |-> picture.height,
                   jpegQuality |-> captureConfig.jpegQuality,
                   result |-> getAdaptiveQuality(picture.data, picture.width,
                                                 picture.height,
                                                 captureConfig.jpegQuality)]
  /\ UNCHANGED <<captureConfig, isScreenSharing, timer, enabled, previousFrameDataRef, frameCountRef,
                 skippedCountRef, lastCapture, firstCapture, lastAccepted,
                 sinceActivity, isIdle, currentIntervalMs, tickedNow>>

\* one frame in a behaviour
QualityNext ==
  /\ lastCall = NoCall
  /\ \E picture \in QualityPictures : GetAdaptiveQuality(picture)

(* ------------------------ capture: operations ------------------------- *)

\* mutant of captureFrame: a call without a usable video counts as a skip
captureFrame_CountsInvalid(c, src) ==
  IF ~ValidSource(src)
  THEN [c EXCEPT !.skippedCount = @ + 1,
                 !.lastCapture = Returned(c, "null", FALSE, Score(0, 1), FALSE)]
  ELSE LET similarity ==
             IF c.previousFrameData # NoData
             THEN compareFrames(src.data, c.previousFrameData, src.width,
                                src.height, captureConfig.diffSampleSize)
             ELSE Score(0, 1)
           isKeyFrame ==
             IF c.previousFrameData # NoData
             THEN IsKeyFrame(similarity, captureConfig.diffThreshold)
             ELSE TRUE
       IN IF ~isKeyFrame
          THEN [c EXCEPT !.skippedCount = @ + 1,
                         !.lastCapture = Returned(c, "null", FALSE, similarity, TRUE),
                         !.firstCapture = IF @ = "pending" THEN "rejected" ELSE @]
          ELSE [c EXCEPT !.previousFrameData = src.data,
                         !.lastAccepted = src.data,
                         !.frameCount = @ + 1,
                         !.lastCapture = Returned(c, "frame", isKeyFrame, similarity, TRUE),
                         !.firstCapture = IF @ = "pending" THEN "keyframe" ELSE @]

\* captureFrame in state c on what the video shows
captureFrame(c, src) ==
  IF ~ValidSource(src)
  THEN [c EXCEPT !.lastCapture = Returned(c, "null", FALSE, Score(0, 1), FALSE)]
  ELSE LET similarity ==
             IF c.previousFrameData # NoData
             THEN compareFrames(src.data, c.previousFrameData, src.width,
                                src.height, captureConfig.diffSampleSize)
             ELSE Score(0, 1)
           isKeyFrame ==
             IF c.previousFrameData # NoData
             THEN IsKeyFrame(similarity, captureConfig.diffThreshold)
             ELSE TRUE
       IN IF ~isKeyFrame
          THEN [c EXCEPT !.skippedCount = @ + 1,
                         !.lastCapture = Returned(c, "null", FALSE, similarity, TRUE),
                         !.firstCapture = IF @ = "pending" THEN "rejected" ELSE @]
          ELSE [c EXCEPT !.previousFrameData = src.data,
                         !.lastAccepted = src.data,
                         !.frameCount = @ + 1,
                         !.lastCapture = Returned(c, "frame", isKeyFrame, similarity, TRUE),
                         !.firstCapture = IF @ = "pending" THEN "keyframe" ELSE @]

\* the clock is not tracked; tracked, with the interval cleared and no call
\* of captureFrame by the loop yet (-1 for none)
Untimed == [timed |-> FALSE]
Stopped == [timed |-> TRUE, dueIn |-> -1, sinceCapture |-> -1, gap |-> -1]

\* the clock after the loop called captureFrame, twice at once when the
\* main-loop effect re-ran, and (re)started the interval
Captured(t, twice, interval) ==
  IF ~t.timed THEN t
  ELSE [timed |-> TRUE, dueIn |-> interval, sinceCapture |-> 0,
        gap |-> IF twice THEN 0 ELSE t.sinceCapture]

CountersBelowCap == frameCountRef + skippedCountRef < MaxCaptures

\* the caller uses the captureFrame the hook returns
ManualCapture(src) ==
  /\ CountersBelowCap
  /\ SetCaptureState(captureFrame(CaptureState, src))
  /\ UNCHANGED <<captureConfig, isScreenSharing, timer, lastCall, enabled, sinceActivity, isIdle,
                 currentIntervalMs, tickedNow>>

\* runCaptureLoop from state c: the idle check, then captureFrame.  When the
\* check flips isIdle, the state change re-runs the main-loop effect, which
\* clears the interval, runs runCaptureLoop once more at once (no flip this
\* time) and sets the interval up with the new rate
RunCaptureLoop(c, src) ==
  LET shouldBeIdle == ShouldBeIdle(sinceActivity, captureConfig.idleTimeoutMs)
      once == captureFrame(c, src)
  IN /\ tickedNow' = TRUE
     /\ IF shouldBeIdle # isIdle
        THEN /\ isIdle' = shouldBeIdle
             /\ currentIntervalMs' = IF shouldBeIdle
                                     THEN captureConfig.maxIntervalMs
                                     ELSE captureConfig.minIntervalMs
             /\ once.frameCount + once.skippedCount < MaxCaptures
             /\ SetCaptureState(captureFrame(once, src))
        ELSE /\ UNCHANGED <<isIdle, currentIntervalMs>>
             /\ SetCaptureState(once)
     /\ timer' = Captured(timer, shouldBeIdle # isIdle, currentIntervalMs')

\* enabled becomes true: the main-loop effect runs runCaptureLoop at once
\* and sets up the interval
Enable(src) ==
  /\ ~enabled
  /\ CountersBelowCap
  /\ enabled' = TRUE
  /\ RunCaptureLoop([CaptureState EXCEPT !.firstCapture = "pending",
                                         !.lastAccepted = NoData], src)
  /\ UNCHANGED <<captureConfig, isScreenSharing, lastCall, sinceActivity>>

\* an interval tick: runCaptureLoop
Tick(src) ==
  /\ enabled
  /\ timer.timed => timer.dueIn = 0
  /\ CountersBelowCap
  /\ RunCaptureLoop(CaptureState, src)
  /\ UNCHANGED <<captureConfig, isScreenSharing, lastCall, enabled, sinceActivity>>

\* enabled becomes false: the interval is cleared and the reset effect runs
Disable ==
  /\ enabled
  /\ enabled' = FALSE
  /\ previousFrameDataRef' = NoData
  /\ frameCountRef' = 0
  /\ skippedCountRef' = 0
  /\ firstCapture' = "none"
  /\ lastCapture' = NoCapture
  /\ lastAccepted' = NoData
  /\ timer' = IF timer.timed THEN Stopped ELSE timer
  /\ UNCHANGED <<captureConfig, isScreenSharing, lastCall, sinceActivity, isIdle, currentIntervalMs,
                 tickedNow>>

\* a mousemove, keydown, scroll or click while the listeners are registered:
\* handleActivity.  Leaving idle re-runs the main-loop effect, which runs
\* runCaptureLoop at once
Activity(src) ==
  /\ enabled
  /\ sinceActivity' = 0
  /\ IF isIdle
     THEN /\ CountersBelowCap
          /\ isIdle' = FALSE
          /\ currentIntervalMs' = captureConfig.minIntervalMs
          /\ tickedNow' = TRUE
          /\ SetCaptureState(captureFrame(CaptureState, src))
          /\ timer' = Captured(timer, FALSE, captureConfig.minIntervalMs)
     ELSE UNCHANGED <<isIdle, currentIntervalMs, tickedNow, previousFrameDataRef,
                      frameCountRef, skippedCountRef, lastCapture,
                      firstCapture, lastAccepted, timer>>
  /\ UNCHANGED <<captureConfig, isScreenSharing, lastCall, enabled>>

\* time passes: one shortest capture interval, up to just past the timeout
Advance ==
  /\ sinceActivity <= captureConfig.idleTimeoutMs
  /\ sinceActivity' = sinceActivity + captureConfig.minIntervalMs
  /\ tickedNow' = FALSE
  /\ UNCHANGED <<captureConfig, isScreenSharing, timer, lastCall, enabled, isIdle, currentIntervalMs,
                 previousFrameDataRef, frameCountRef, skippedCountRef,
                 lastCapture, firstCapture, lastAccepted>>

\* time passes where the clock is tracked: one grain, or up to the next tick
\* of the interval, which fires before more time passes; sinceActivity
\* saturates just past the idle timeout
Elapse(d) ==
  /\ timer.timed
  /\ d > 0
  /\ enabled => d <= timer.dueIn
  /\ timer' = IF enabled
              THEN [timer EXCEPT !.dueIn = @ - d, !.sinceCapture = @ + d]
              ELSE timer
  /\ sinceActivity' = Min(sinceActivity + d, captureConfig.idleTimeoutMs + 1)
  /\ tickedNow' = FALSE
  /\ UNCHANGED <<captureConfig, isScreenSharing, lastCall, enabled, isIdle, currentIntervalMs,
                 previousFrameDataRef, frameCountRef, skippedCountRef,
                 lastCapture, firstCapture, lastAccepted>>

(* ------------------------ capture: specification ---------------------- *)

\* the hook after mount, whatever its config
CaptureStart ==
  /\ enabled = FALSE
  /\ previousFrameDataRef = NoData
  /\ frameCountRef = 0
  /\ skippedCountRef = 0
  /\ lastCapture = NoCapture
  /\ firstCapture = "none"
  /\ lastAccepted = NoData
  /\ sinceActivity = 0
  /\ isIdle = FALSE
  /\ currentIntervalMs = captureConfig.minIntervalMs
  /\ tickedNow = FALSE
  /\ lastCall = NoCall
  /\ isScreenSharing = FALSE
  /\ timer \in {Untimed, Stopped}

CaptureInit ==
  /\ captureConfig \in Configs
  /\ CaptureStart
  /\ timer = Untimed

CaptureNext ==
  \/ \E src \in Sources : ManualCapture(src)
  \/ \E src \in Sources : Enable(src)
  \/ \E src \in Sources : Tick(src)
  \/ Disable

\* the cadence of the loop: time, user activity and ticks on a video that
\* is absent, all black or all green
CadenceSources ==
  {NoVideo} \cup {src \in Pictures : /\ src.width = 2 /\ src.height = 1
                                     /\ src.data[1] = src.data[5]
                                     /\ src.data[2] = src.data[6]
                                     /\ src.data[4] = 255 /\ src.data[8] = 255
                                     /\ src.data[1] = 0}

CadenceNext ==
  \/ \E src \in CadenceSources : Enable(src)
  \/ \E src \in CadenceSources : Tick(src)
  \/ \E src \in CadenceSources : Activity(src)
  \/ Disable
  \/ Advance

(* --------------------------- specifications --------------------------- *)

vars == <<sessionVars, captureVars>>

\* the session specifications leave the capture hook unmounted-idle, the
\* capture specification leaves the session without a key
CaptureAtRest == CaptureInit /\ captureConfig = AppConfig
\* a browser with microphone access and Web Audio, before any recording
\* no subscriber logs the events and nobody watches the error message
Unobserved == ~observer /\ dismissed = "unwatched"

FullBrowser == mediaDevices /\ webAudio /\ ~audioStreamerRef /\ Unobserved

SessionAtRest == SessionInit /\ envApiKey = NoKey /\ FullBrowser

\* after mount there is no streamer yet; the transcript specification runs
\* where no AudioContext can be constructed, so that no audio is played
Init == SessionInit /\ FullBrowser /\ CaptureAtRest

Spec == Init /\ [][SessionNext /\ UNCHANGED captureVars]_vars

TranscriptInit ==
  /\ SessionInit
  /\ mediaDevices /\ ~webAudio /\ ~audioStreamerRef /\ Unobserved
  /\ CaptureAtRest

TranscriptSpec ==
  TranscriptInit /\ [][TranscriptNext /\ UNCHANGED captureVars]_vars

\* getUserMedia resolves: every pending request is answered, with a grant
GrantingSpec ==
  /\ Init
  /\ [][GrantingNext /\ UNCHANGED captureVars]_vars
  /\ WF_vars(MicGranted /\ UNCHANGED captureVars)

\* a usable key, with or without navigator.mediaDevices
AudioInit ==
  /\ SessionInit
  /\ ~IsFalsyKey(getApiKey(envApiKey))
  /\ webAudio
  /\ ~audioStreamerRef
  /\ Unobserved
  /\ CaptureAtRest

AudioSpec == AudioInit /\ [][AudioNext /\ UNCHANGED captureVars]_vars

\* a usable key and an observer registered on the client's events
EventsInit ==
  /\ SessionInit
  /\ envApiKey = Key(<<"'", "k", "'", " ">>)
  /\ mediaDevices /\ webAudio /\ ~audioStreamerRef
  /\ observer /\ dismissed = "unwatched"
  /\ CaptureAtRest

EventsSpec == EventsInit /\ [][EventsNext /\ UNCHANGED captureVars]_vars

\* the transport answers: a transport that is opening opens or reports an
\* error, and a transport that reported an error reports its close
Answers ==
  \E id \in TransportIds :
    /\ transports[id].st \in {"opening", "errored"}
    /\ TransportOpen(id) \/ TransportError(id) \/ TransportClose(id)

SettlingSpec ==
  /\ Init
  /\ [][SessionNext /\ UNCHANGED captureVars]_vars
  /\ WF_vars(Answers /\ UNCHANGED captureVars)

\* the session with a user who may dismiss the error message
ErrorNext ==
  \/ SessionNext
  \/ ClearError

\* a usable key, and the error message watched
ErrorInit ==
  /\ SessionInit
  /\ envApiKey = Key(<<"'", "k", "'", " ">>)
  /\ mediaDevices /\ webAudio /\ ~audioStreamerRef
  /\ ~observer /\ dismissed = "none"
  /\ CaptureAtRest

ErrorSpec == ErrorInit /\ [][ErrorNext /\ UNCHANGED captureVars]_vars

\* the send operations called at any moment of a session's life
SendNext ==
  \/ ToggleConnection
  \/ \E id \in TransportIds : TransportOpen(id)
  \/ \E id \in TransportIds : TransportClose(id)
  \/ SendText
  \/ \E chunks \in 1..MaxSends : SendRealtimeInput(chunks)
  \/ SendToolResponse

SendInit ==
  /\ SessionInit
  /\ envApiKey = Key(<<"'", "k", "'", " ">>)
  /\ FullBrowser
  /\ CaptureAtRest

SendSpec == SendInit /\ [][SendNext /\ UNCHANGED captureVars]_vars

\* a streamer just constructed
PlaybackInit ==
  /\ SessionInit
  /\ envApiKey = NoKey
  /\ mediaDevices /\ webAudio /\ audioStreamerRef /\ Unobserved
  /\ CaptureAtRest

PlaybackSpec == PlaybackInit /\ [][PlaybackNext /\ UNCHANGED captureVars]_vars

\* a streamer just constructed, its audio graph tracked
GainInit ==
  /\ SessionStart(NewGain)
  /\ envApiKey = NoKey
  /\ mediaDevices /\ webAudio /\ audioStreamerRef /\ Unobserved
  /\ CaptureAtRest

GainSpec == GainInit /\ [][GainNext /\ UNCHANGED captureVars]_vars

\* the browser runs every due timeout and every ended callback
PlaybackFairSpec ==
  /\ PlaybackSpec
  /\ WF_vars(BufferTimerFires /\ UNCHANGED captureVars)
  /\ WF_vars((\E chunk \in playing : SegmentEnds(chunk)) /\ UNCHANGED captureVars)

ToolsSpec == Init /\ [][ToolsNext /\ UNCHANGED captureVars]_vars

CaptureSpecInit == SessionAtRest /\ CaptureInit

CaptureSpec == CaptureSpecInit /\ [][CaptureNext /\ UNCHANGED sessionVars]_vars

\* App: screenCaptureEnabled = status === 'connected' && isScreenSharing
screenCaptureEnabled == status = "connected" /\ isScreenSharing

\* the hook still runs with the enabled option of an earlier render: the
\* render and its effects are due, and run before any other event
Stale == enabled # screenCaptureEnabled

\* the frames runCaptureLoop passed to onFrame in this step
Produced == frameCountRef' - frameCountRef

\* the render with the new option and the hook's effects
SharingSync(src) ==
  /\ Stale
  /\ IF screenCaptureEnabled
     THEN Enable(src) /\ Forward(Produced)
     ELSE Disable /\ UNCHANGED sessionVars

SharingTick(src) ==
  /\ ~Stale
  /\ Tick(src)
  /\ Forward(Produced)

\* the user starts or stops the screen share
ToggleScreenSharing ==
  /\ ~Stale
  /\ isScreenSharing' = ~isScreenSharing
  /\ UNCHANGED <<captureConfig, enabled, previousFrameDataRef, frameCountRef,
                 skippedCountRef, lastCapture, firstCapture, lastAccepted,
                 sinceActivity, isIdle, currentIntervalMs, tickedNow, lastCall,
                 timer>>
  /\ UNCHANGED sessionVars

\* an event of the session while the capture loop is as the last render set it
SharingSession(event) ==
  /\ ~Stale
  /\ event
  /\ UNCHANGED captureVars

\* the session and the capture loop as App wires them
SharingNext ==
  \/ \E src \in CadenceSources : SharingSync(src)
  \/ \E src \in CadenceSources : SharingTick(src)
  \/ ToggleScreenSharing
  \/ SharingSession(ToggleConnection)
  \/ \E id \in TransportIds : SharingSession(TransportOpen(id))
  \/ \E id \in TransportIds : SharingSession(TransportClose(id))
  \/ \E d \in SomeDocSettings : SharingSession(Reconfigure(d[1], d[2]))

SharingInit ==
  /\ SessionInit
  /\ envApiKey = Key(<<"'", "k", "'", " ">>)
  /\ FullBrowser
  /\ CaptureAtRest

SharingSpec == SharingInit /\ [][SharingNext]_vars

\* no comparison made yet; the default and a small sample size
CompareInit == CaptureSpecInit /\ captureConfig \in {DefaultConfig, CoarseConfig}

CompareSpec == CompareInit /\ [][CompareNext /\ UNCHANGED sessionVars]_vars

\* no frame encoded yet; a fixed quality or the adaptive one
QualityInit ==
  /\ SessionAtRest
  /\ captureConfig \in QualityConfigs
  /\ CaptureStart
  /\ timer = Untimed

\* the loop under App's config with the clock tracked
TimedInit ==
  /\ SessionAtRest
  /\ captureConfig = AppConfig
  /\ CaptureStart
  /\ timer = Stopped

\* the cadence of the loop in time: the interval fires when it is due
TimedNext ==
  \/ \E src \in CadenceSources : Enable(src)
  \/ \E src \in CadenceSources : Tick(src)
  \/ \E src \in CadenceSources : Activity(src)
  \/ Disable
  \/ \E d \in {TimeStep, timer.dueIn} : Elapse(d)

TimedSpec == TimedInit /\ [][TimedNext /\ UNCHANGED sessionVars]_vars

QualitySpec == QualityInit /\ [][QualityNext /\ UNCHANGED sessionVars]_vars

\* no conversion made yet
PcmInit == CaptureSpecInit /\ captureConfig = DefaultConfig

PcmSpec == PcmInit /\ [][PcmNext /\ UNCHANGED sessionVars]_vars

CadenceSpec == CaptureSpecInit /\ [][CadenceNext /\ UNCHANGED sessionVars]_vars

(* --------------------------- session: claims -------------------------- *)

StatusChange == <<status, status'>>

\* the edges the state machine is described with
ClaimedEdges == {<<"disconnected", "connecting">>, <<"connecting", "connected">>,
                 <<"connected", "disconnected">>, <<"connecting", "error">>,
                 <<"connected", "error">>}

\* the edges the code adds: disconnect(), a close event or a reconfiguration
\* while Connecting, and the open acknowledgment of an attempt that
\* disconnect() or a reconfiguration abandoned
AddedEdges == {<<"connecting", "disconnected">>, <<"disconnected", "connected">>}

FailureReported ==
  \E id \in TransportIds :
    \/ transports[id].st # "errored" /\ transports'[id].st = "errored"
    \/ transports[id].st \in {"open", "errored"} /\ transports'[id].st = "closed"

\* C2: a transport failure reported while Connecting or Connected moves the
\* status to Error or Disconnected, and a transport is opened only by a
\* connect() call.
C2_FailureLeavesSession ==
  [][/\ (FailureReported /\ status \in {"connecting", "connected"})
          => status' \in {"error", "disconnected"}
     /\ Len(transports') > Len(transports) => connectCalls' = connectCalls + 1]_vars

\* the config effect ran: a new client replaced clientRef.current
Reconfigured == clientRef' # clientRef

\* C3: reconfiguring a Connected session closes its transport, constructs a
\* client with the rebuilt tools, sets Disconnected, and the status stays
\* Disconnected until the next connect() call.
C3_ReconfigureStaysDisconnected ==
  [][/\ (Reconfigured /\ status = "connected") =>
          /\ status' = "disconnected"
          /\ session' = NoSession
          /\ \A id \in TransportIds :
               transports[id].st = "open" => transports'[id].st # "open"
     /\ awaitingConnect' => status' = "disconnected"]_vars

DocsReady(docs) == \E i \in DOMAIN docs : docs[i] = "ready"

\* a tool array with the single entry the grounding rule asks for
RightTools(tools, store, ready) ==
  /\ Len(tools) = 1
  /\ IF store \notin {NoStore, Undefined} /\ ready
     THEN tools[1].kind = "fileSearch" /\ tools[1].store = store
     ELSE tools[1].kind = "googleSearch"

RECURSIVE Flatten(_)
Flatten(ss) == IF ss = <<>> THEN <<>> ELSE Head(ss) \o Flatten(Tail(ss))

\* what a message ending a turn must leave behind, given the deltas received
\* since the previous turnComplete
TurnCompleted(parts) ==
  LET expected == Flatten(pendingDeltas) \o JoinText(parts)
  IN /\ streamingTextRef' = <<>>
     /\ isStreaming' = FALSE
     /\ IF expected # <<>>
        THEN /\ turnIdRef' = turnIdRef + 1
             /\ lastCompletedTurn' = [id |-> turnIdRef + 1, text |-> expected]
        ELSE UNCHANGED <<turnIdRef, lastCompletedTurn>>

\* C5: every turnComplete emits exactly one CompletedTurn holding the
\* in-order concatenation of the deltas since the previous turnComplete when
\* that is non-empty, none when it is empty, and leaves the accumulator empty
\* and isStreaming false.
C5_TurnLifecycle ==
  [][\A parts \in PartLists :
       (\E id \in TransportIds : Message(id, parts, TRUE)) => TurnCompleted(parts)]_vars

\* C5 witness: deltas "A" then "B" were completed as one turn "AB"
C5_Witness ==
  /\ lastCompletedTurn = [id |-> 1, text |-> <<"A", "B">>]
  /\ streamingTextRef = <<>>
  /\ ~isStreaming

C7_NoRetry ==
  [][/\ Len(transports') <= connectCalls'
     /\ (status = "disconnected" /\ status' # "disconnected")
          => connectCalls' = connectCalls + 1]_vars

\* disconnect() ran: from the widget, or as the config effect's cleanup
DisconnectCalled == Disconnect \/ Reconfigured

\* C8: disconnect() closes the held session and leaves Disconnected; called
\* when already Disconnected it closes nothing and changes nothing.
C8_DisconnectIdempotent ==
  [][DisconnectCalled =>
       /\ status' = "disconnected"
       /\ session' = NoSession
       /\ session # NoSession => transports'[session].st # "open"
       /\ status = "disconnected" =>
            /\ session = NoSession
            /\ transports' = transports
            /\ isRecording' = isRecording]_vars

(* --------------------------- capture: claims -------------------------- *)

C10_FirstFrameIsKeyFrame == firstCapture \in {"none", "pending", "keyframe"}

\* C11: at every captureFrame call the comparison baseline is the pixels of
\* the frame accepted last since the loop was last enabled (none when no
\* frame was accepted since): rejected and null captures leave the baseline
\* alone, accepted ones replace it.
C11_BaselineIsLastAccepted == previousFrameDataRef = lastAccepted

\* the interval that goes with the idle flag
IntervalFor(idle) ==
  IF idle THEN captureConfig.maxIntervalMs ELSE captureConfig.minIntervalMs

\* C12: right after a tick isIdle tells whether the time since the last
\* activity exceeds idleTimeoutMs, the interval is maxIntervalMs when idle
\* and minIntervalMs otherwise, and an activity event while idle puts the
\* interval back to minIntervalMs at once.
C12_IdleCadence ==
  /\ [](currentIntervalMs = IntervalFor(isIdle))
  /\ []((enabled /\ tickedNow) =>
          (isIdle <=> sinceActivity > captureConfig.idleTimeoutMs))
  /\ [][(enabled /\ isIdle /\ sinceActivity' = 0) =>
          (~isIdle' /\ currentIntervalMs' = captureConfig.minIntervalMs)]_vars

\* C12 witness: a tick found the loop idle and slowed it down
C12_Witness ==
  /\ enabled /\ tickedNow
  /\ sinceActivity > captureConfig.idleTimeoutMs
  /\ isIdle
  /\ currentIntervalMs = captureConfig.maxIntervalMs


\* C13: at most one audio segment is playing (started and not yet ended) at
\* any time, whatever the interleaving of addPCM16, stop, the buffering
\* timeout and the ended callbacks.
C13_OneSegmentPlaying == Cardinality(playing) <= 1

\* C14: a chunk added while no segment is playing is eventually started,
\* unless stop() drops it first; also when the queue ran empty before.
C14_IdleChunkStarts ==
  \A chunk \in 1..MaxChunks : (chunk \in idleAdded) ~> (chunk \notin idleAdded)

\* the chunks added since the last stop(), in the order the queue starts them
PlaybackOrder == started \o audioQueue

\* C15: chunks added with no stop() between them are started in the order
\* they were added: the chunks started since the last stop(), followed by
\* the queue, are the chunks added since then, in the order of their adding.
C15_StartedInOrder ==
  \A i \in 1..Len(PlaybackOrder) :
    PlaybackOrder[i] = chunkCount - Len(PlaybackOrder) + i

\* C15 witness: three chunks were started one after the other
C15_Witness == started = <<1, 2, 3>> /\ playing = {3}

\* the segment started last since the last stop()
LastStarted == started[Len(started)]

\* C16: queued segments play back to back: a segment starts only in the
\* step in which the segment started before it ends (no overlap), and a
\* segment that ends while chunks are queued is followed at once (no gap).
C16_BackToBack ==
  [][/\ (Len(started') > Len(started) /\ started # <<>> /\ LastStarted \in playing)
          => LastStarted \notin playing'
     /\ (/\ started # <<>> /\ LastStarted \in playing
         /\ LastStarted \notin playing' /\ audioQueue # <<>>)
          => Len(started') > Len(started)]_vars

\* C17: starting the capture channel again without a stop() in between
\* creates no second microphone stream or audio graph: at most one stream
\* and one graph exist at any moment.
C17_OneMicrophoneGraph == devices.streams <= 1 /\ devices.graphs <= 1

\* a step in which stopRecording, hence AudioRecorder.stop, runs
RecorderStopped ==
  \/ ToggleConnection /\ status \in {"connected", "connecting"}
  \/ ToggleMic /\ status # "disconnected" /\ isRecording
  \/ \E id \in TransportIds : TransportClose(id)

Held(handle) == IF handle THEN 1 ELSE 0

\* C18: AudioRecorder.stop() disconnects the graph it holds, stops the
\* tracks of the stream it holds, closes the context it holds and leaves the
\* four handles null; with no handle held it changes nothing.
C18_RecorderStop ==
  [][RecorderStopped =>
       /\ recorder' = NoHandles
       /\ devices'.streams = devices.streams - Held(recorder.stream)
       /\ devices'.graphs = devices.graphs - Held(recorder.source /\ recorder.processor)
       /\ devices'.contexts = devices.contexts - Held(recorder.audioContext)
       /\ recorder = NoHandles => (recorder' = recorder /\ devices' = devices)]_vars

\* C18 witness: a recorder that was recording was stopped and nothing of it
\* is left
C18_Witness == closedBusy /\ recorder = NoHandles /\ devices = NoDevices

\* a step in which microphone acquisition fails: getUserMedia is refused,
\* or startRecording runs where getUserMedia does not exist
AcquisitionFails ==
  \/ MicDenied
  \/ /\ ~mediaDevices
     /\ \/ \E id \in TransportIds : TransportOpen(id)
        \/ ToggleMic /\ status # "disconnected" /\ ~isRecording

\* C19: a failed microphone acquisition sets an error message, leaves
\* isRecording as it was (false stays false) and does not take the session
\* out of Connected.
C19_AcquisitionFailure ==
  [][AcquisitionFails =>
       /\ error' # NoError
       /\ isRecording' = isRecording
       /\ MicDenied => status' = status
       /\ status' = "connected" \/ status' = status]_vars

\* C19 witness: access was refused in a Connected session
C19_Witness ==
  /\ status = "connected"
  /\ error = MicPermissionError
  /\ ~isRecording
  /\ micPending = 0

\* C20: every close event sets Disconnected and stops the capture channel
\* and the playback queue: right after it isRecording is false, the recorder
\* holds nothing and the playback queue is empty.
C20_CloseStopsAudio ==
  [][(\E id \in TransportIds : TransportClose(id)) =>
       /\ status' = "disconnected"
       /\ ~isRecording'
       /\ recorder' = NoHandles
       /\ audioQueue' = <<>>
       /\ ~isPlaying']_vars

\* C20 witness: a close event arrived while the microphone was recording and
\* chunks were queued
C20_Witness ==
  /\ closedBusy
  /\ status = "disconnected"
  /\ ~isRecording
  /\ audioQueue = <<>>
  /\ isStreamComplete

\* C21: every open event sets the status to Connected and calls
\* startRecording in the same step, with no user action: where getUserMedia
\* exists a request is made; a granted request sets isRecording, and with
\* every request granted a pending request leads to isRecording.
C21_OpenStartsRecording ==
  /\ [][(\E id \in TransportIds : TransportOpen(id)) =>
          /\ status' = "connected"
          /\ micPending' = micPending + 1
          /\ audioStreamerRef']_vars
  /\ [][MicGranted => isRecording']_vars
  /\ (micPending > 0) ~> isRecording

\* C21 witness: the open event of the only transport started a recording
\* that no microphone toggle asked for
C21_Witness ==
  /\ Len(transports) = 1
  /\ transports[1].st = "open"
  /\ status = "connected"
  /\ isRecording
  /\ micPending = 0
  /\ devices = [streams |-> 1, graphs |-> 1, contexts |-> 1]

\* the text of the textDelta events received since the last turnComplete
RECURSIVE DeltasSince(_)
DeltasSince(log) ==
  IF log = <<>> THEN <<>>
  ELSE LET last == log[Len(log)]
       IN IF last.type = "turnComplete" THEN <<>>
          ELSE DeltasSince(SubSeq(log, 1, Len(log) - 1))
               \o (IF last.type = "textDelta" THEN last.text ELSE <<>>)

IsPrefix(a, b) == Len(a) <= Len(b) /\ SubSeq(b, 1, Len(a)) = a

\* C22: subscribers receive events in the order the transport delivered the
\* messages (events are only ever appended, message by message), within one
\* message the textDelta comes before the turnComplete, and so the
\* accumulator holds exactly the text delivered since the last turnComplete.
C22_EventOrder ==
  /\ [](\A i, j \in 1..Len(eventLog) :
          i < j => /\ eventLog[i].msg <= eventLog[j].msg
                   /\ (/\ eventLog[i].msg = eventLog[j].msg
                       /\ eventLog[i].type = "turnComplete")
                        => eventLog[j].type # "textDelta")
  /\ [](observer => streamingTextRef = DeltasSince(eventLog))
  /\ [][IsPrefix(eventLog, eventLog')]_vars

\* C22 witness: the second message carried text and the completion marker,
\* and its textDelta was received right before its turnComplete
C22_Witness ==
  \E i \in 1..(Len(eventLog) - 1) :
    /\ eventLog[i].msg = 2 /\ eventLog[i].type = "textDelta"
    /\ eventLog[i + 1].msg = 2 /\ eventLog[i + 1].type = "turnComplete"

\* C23 as stated: every content event carries one audio part of its message
\* and nothing else, and a message emits at most one textDelta event,
\* holding the joined text of its text parts.
C23_ContentPerAudioPart ==
  /\ \A i \in 1..Len(eventLog) :
       eventLog[i].type = "content" =>
         /\ Len(eventLog[i].parts) = 1
         /\ eventLog[i].parts[1].kind = "audio"
  /\ \A i, j \in 1..Len(eventLog) :
       (/\ eventLog[i].type = "textDelta" /\ eventLog[j].type = "textDelta"
        /\ eventLog[i].msg = eventLog[j].msg) => i = j

AudioOf(parts) == SelectSeq(parts, LAMBDA part : part.kind = "audio")

\* the events the observer received in this step
Appended == SubSeq(eventLog', Len(eventLog) + 1, Len(eventLog'))

\* C23 as amended: a message with a model turn emits one content event
\* carrying all the parts of the turn; the provider's content listener
\* queues each audio part on its own, in part order, when a streamer
\* exists; the text of the text parts, joined in part order, is emitted as
\* one textDelta event right after the content event, and only when that
\* text is not empty.
C23_ContentPerMessage ==
  [][eventLog' # eventLog =>
       LET e == Appended[1]
           n == Len(AudioOf(e.parts))
           deltas == SelectSeq(Appended, LAMBDA x : x.type = "textDelta")
       IN /\ e.type = "content"
          /\ \A i \in 2..Len(Appended) : Appended[i].type # "content"
          /\ audioStreamerRef =>
               /\ audioQueue' = audioQueue \o [i \in 1..n |-> chunkCount + i]
               /\ chunkCount' = chunkCount + n
          /\ IF JoinText(e.parts) # <<>>
             THEN /\ Len(deltas) = 1
                  /\ Appended[2].type = "textDelta"
                  /\ Appended[2].text = JoinText(e.parts)
             ELSE deltas = <<>>]_vars

\* C23 witness: a turn with two audio parts arrived in one content event
\* and two chunks were queued
C23_Witness ==
  /\ \E i \in 1..Len(eventLog) :
       eventLog[i].type = "content" /\ Len(AudioOf(eventLog[i].parts)) = 2
  /\ Len(audioQueue) >= 2

\* C24: CompletedTurn ids strictly increase in emission order: every newly
\* emitted CompletedTurn has a greater id than the one before it, and the
\* counter behind the ids never goes down, across disconnects, reconnects
\* and reconfigurations.
C24_TurnIdsIncrease ==
  [][/\ lastCompletedTurn' # lastCompletedTurn
          => lastCompletedTurn'.id > lastCompletedTurn.id
     /\ turnIdRef' >= turnIdRef
     /\ lastCompletedTurn'.id <= turnIdRef']_vars

\* C24 witness: a second turn was completed on a second transport, after a
\* reconfiguration replaced the client
C24_Witness ==
  /\ lastCompletedTurn.id = 2
  /\ clientRef = 2
  /\ Len(transports) = 2
  /\ transports[2].st = "open"

\* C25: decoding the encoding of a sample x in [-1, 1] gives x within one
\* quantization step: |decoded - x| <= 1/32768.
C25_PcmRoundTrip ==
  (lastCall.fn = "pcm" /\ Abs(lastCall.sample) <= SampleDen) =>
    Abs(lastCall.decoded.num * SampleDen - lastCall.sample * lastCall.decoded.den)
      <= SampleDen

\* C26: sendText, sendRealtimeInput and sendToolResponse called while the
\* client holds no session make no call on any session, raise nothing and
\* leave the client's and the provider's state as it was
C26_SendWithoutSession ==
  [][(sends'.calls # sends.calls /\ session = NoSession) =>
       /\ sends'.sessionCalls = sends.sessionCalls
       /\ ~sends'.threw
       /\ sends'.last = "dropped"
       /\ UNCHANGED <<providerState, streamerState>>]_vars

\* a call was passed to the session while Connected and a later one, made
\* after disconnect(), was dropped
C26_Witness ==
  /\ status = "disconnected" /\ session = NoSession
  /\ Len(transports) = 1 /\ transports[1].st \in {"closing", "closed"}
  /\ sends.calls = 2 /\ sends.last = "dropped"
  /\ sends.sessionCalls = <<[to |-> 1, op |-> "send", mimeType |-> NoMedia]>>

\* the pixels compareFrames samples out of pixels many, numbered from 0
SampledPixels(pixels, diffSampleSize) ==
  LET sampled == Min(diffSampleSize, pixels)
  IN {i * (pixels \div sampled) : i \in 0..(sampled - 1)}

\* R, G and B of pixel p differ by at most 10 between the two buffers
WithinTolerance(a, b, p) ==
  \A ch \in 1..3 : Abs(a[4 * p + ch] - b[4 * p + ch]) <= 10

\* C27: compareFrames returns 1 for identical buffers, 0 for buffers of
\* different lengths, and always a value in [0, 1] that equals the number
\* of sampled pixels whose R, G and B each differ by at most 10, divided by
\* the number of sampled pixels
C27_Similarity ==
  lastCall.fn = "compareFrames" =>
    LET r == lastCall.result
        a == lastCall.currentData
        b == lastCall.previousData
        sampled == SampledPixels(lastCall.width * lastCall.height,
                                 captureConfig.diffSampleSize)
        matching == {p \in sampled : WithinTolerance(a, b, p)}
    IN /\ r.den > 0 /\ 0 <= r.num /\ r.num <= r.den
       /\ a = b => r.num = r.den
       /\ Len(a) # Len(b) => r.num = 0
       /\ Len(a) = Len(b) =>
            r.num * Cardinality(sampled) = Cardinality(matching) * r.den

\* two different buffers of three pixels, two sampled, one of them matching
C27_Witness ==
  /\ lastCall.fn = "compareFrames"
  /\ Len(lastCall.currentData) = 12 /\ Len(lastCall.previousData) = 12
  /\ lastCall.currentData # lastCall.previousData
  /\ lastCall.result = Score(1, 2)

\* C28: a captureFrame call that finds no video element, or one of zero
\* width or height, returns null and leaves the accepted counter, the skip
\* counter and the stored baseline as they were
C28_InvalidSource ==
  [][(lastCapture'.result # "none" /\ ~lastCapture'.valid) =>
       /\ lastCapture'.result = "null"
       /\ UNCHANGED <<frameCountRef, skippedCountRef, previousFrameDataRef>>]_vars

\* one frame accepted, one skipped, then a call without a usable video
C28_Witness ==
  /\ lastCapture.result = "null" /\ ~lastCapture.valid
  /\ frameCountRef = 1 /\ skippedCountRef = 1
  /\ previousFrameDataRef # NoData

\* C29 as stated: a shown error message goes back to null only by
\* clearError()
C29_OnlyClearErrorDismisses ==
  [][(error # NoError /\ error' = NoError) => ClearError]_vars

\* C29: a shown error message stays until clearError() is called, a newer
\* error replaces it, or a later startRecording() succeeds; no other
\* operation sets it back to null
C29_ErrorStays ==
  /\ [][(error # NoError /\ error' = NoError) => (ClearError \/ MicGranted)]_vars
  /\ [][(error # NoError /\ MicGranted) => error' = NoError]_vars

\* a message was shown through a disconnect and a reconnect and went away
\* when the microphone started
C29_Witness ==
  /\ dismissed = "startRecording" /\ error = NoError /\ isRecording
  /\ Len(transports) = 2 /\ transports[2].st = "open"

\* the session's only connect() so far was answered by disconnect() while
\* the transport was opening: the status is Disconnected again, the client
\* is the one that connected, and no other transport exists whose close
\* could have set the status
Abandoned(id) ==
  /\ Len(transports) = 1
  /\ transports[id].st = "opening"
  /\ transports[id].owner = clientRef
  /\ status = "disconnected"

\* C30: disconnect() while Connecting sets Disconnected with the microphone
\* off, and when the abandoned transport reports open afterwards the status
\* stays Disconnected and no recording is started
C30_DisconnectCancels ==
  /\ [][(status = "connecting" /\ Disconnect) =>
          (status' = "disconnected" /\ ~isRecording')]_vars
  /\ [][\A id \in TransportIds :
          (Abandoned(id) /\ TransportOpen(id)) =>
            /\ status' = "disconnected"
            /\ ~isRecording'
            /\ micPending' = micPending]_vars

\* C31: whenever the status is Connected, clientRef.current holds a session
\* and that session's transport is open (or has failed and its close event
\* is still to come)
C31_ConnectedHoldsSession ==
  status = "connected" =>
    /\ session # NoSession
    /\ transports[session].st \in {"open", "errored"}

\* the transports of a client that are open
OpenOf(client) ==
  {id \in TransportIds : transports[id].owner = client /\ transports[id].st = "open"}

\* C32: a client never has two open transports, and an open transport of
\* clientRef.current is the session it holds
C32_OneOpenTransport ==
  /\ \A id \in TransportIds : Cardinality(OpenOf(transports[id].owner)) <= 1
  /\ \A id \in OpenOf(clientRef) : session = id

\* a transport replaced by disconnect() and a new connect(), or one of a
\* discarded client
Earlier(id) ==
  /\ session # NoSession /\ session # id
  /\ transports[id].st = "closing" \/ transports[id].owner # clientRef

\* C33: the close event of an earlier transport changes nothing while the
\* session clientRef.current holds is open: the status stays Connected and
\* the microphone keeps recording
C33_StaleCloseIgnored ==
  [][\A id \in TransportIds :
       (/\ TransportClose(id)
        /\ Earlier(id)
        /\ status = "connected"
        /\ session # NoSession /\ session # id
        /\ transports[session].st = "open") =>
         /\ status' = "connected"
         /\ isRecording' = isRecording
         /\ recorder' = recorder]_vars

\* C34: startRecording() is not called while the status is Disconnected
\* (toggleMic connects instead) and every way into Disconnected runs
\* stopRecording(), so a microphone request answered while Disconnected was
\* made before the last stopRecording(): its grant leaves isRecording false
\* and acquires nothing
C34_StopOutlivesPendingStart ==
  [][(status = "disconnected" /\ MicGranted) =>
       /\ ~isRecording'
       /\ recorder' = recorder
       /\ devices' = devices]_vars

\* the text deltas the log holds from transport id since that transport's
\* last turnComplete
RECURSIVE DeltasOf(_, _)
DeltasOf(log, id) ==
  IF log = <<>> THEN <<>>
  ELSE LET last == log[Len(log)]
           before == SubSeq(log, 1, Len(log) - 1)
       IN IF last.via # id THEN DeltasOf(before, id)
          ELSE IF last.type = "turnComplete" THEN <<>>
          ELSE DeltasOf(before, id)
               \o (IF last.type = "textDelta" THEN last.text ELSE <<>>)

\* C35 (text): the text of a newly completed turn is the text delivered by
\* the completing session since that session's previous turnComplete
C35_TurnTextOfOneSession ==
  [][lastCompletedTurn' # lastCompletedTurn =>
       LET log == eventLog'
           done == log[Len(log)]
       IN lastCompletedTurn'.text =
            DeltasOf(SubSeq(log, 1, Len(log) - 1), done.via)]_vars

\* C35: a completed turn holds only text of its own session and turn, and
\* isStreaming is false whenever the status is Disconnected
C35_TurnScopedText ==
  /\ C35_TurnTextOfOneSession
  /\ [](status = "disconnected" => ~isStreaming)

FramesDelivered ==
  IF frameCountRef' > frameCountRef THEN frameCountRef' - frameCountRef ELSE 0

\* C37: frames are delivered to onFrame only by a loop that is enabled, while
\* the status is Connected and the screen is shared; a disabled loop makes
\* no capture; and every frame delivered is forwarded to the session as
\* exactly one sendRealtimeInput call tagged image/jpeg
C37_FramesOnlyWhileEnabled ==
  [][/\ FramesDelivered > 0 =>
          /\ enabled'
          /\ status = "connected" /\ isScreenSharing
          /\ session # NoSession
          /\ sends'.sessionCalls =
               sends.sessionCalls \o
                 [i \in 1..FramesDelivered |->
                    [to |-> session, op |-> "sendRealtimeInput",
                     mimeType |-> "image/jpeg"]]
     /\ (~enabled /\ ~enabled') =>
          UNCHANGED <<frameCountRef, skippedCountRef, lastCapture>>
     /\ sends' # sends => FramesDelivered > 0]_vars

\* the sampled adjacent-pixel pairs of the last call whose delta exceeds the
\* edge threshold, and the quality the policy gives to that share of them
EdgeCount ==
  Cardinality({i \in SampledPairs(50) :
                 IsEdge(lastCall.imageData,
                        (lastCall.width * lastCall.height) \div 50, i)})

SampleCount == Cardinality(SampledPairs(50))

\* C40: with jpegQuality 'auto' the quality is 0.85 when edgeRatio > 0.30,
\* 0.75 when 0.15 < edgeRatio <= 0.30 and 0.65 otherwise, edgeRatio being the
\* share of the sampled adjacent-pixel pairs that are edges; a fixed
\* jpegQuality is the quality of every frame
C40_AdaptiveQuality ==
  lastCall.fn = "getAdaptiveQuality" =>
    IF lastCall.jpegQuality = Auto
    THEN lastCall.result =
           IF EdgeCount * 100 > 30 * SampleCount THEN <<85, 100>>
           ELSE IF EdgeCount * 100 > 15 * SampleCount THEN <<75, 100>>
           ELSE <<65, 100>>
    ELSE lastCall.result = lastCall.jpegQuality

\* C38: while the loop is enabled, two consecutive calls of captureFrame by
\* the loop are at least minIntervalMs apart, also where the idle state flips
\* or an activity event restarts the interval
C38_CaptureSpacing ==
  (enabled /\ timer.timed /\ timer.gap # -1) =>
    timer.gap >= captureConfig.minIntervalMs

\* the gain node a started source was connected to
NodeOf(chunk) == CHOOSE node \in 1..(MaxStops + 1) : <<chunk, node>> \in gainNode.route

\* the segments started by the queue since the last stop() and still playing
PlayingNow == {chunk \in playing : \E i \in 1..Len(started) : started[i] = chunk}

\* C39: every segment the playback queue started plays through a gain node
\* that is connected to the output as long as the segment plays, and a chunk
\* added after stop() is never attached to the node stop() ramped to zero
C39_SegmentsHeard ==
  \A chunk \in PlayingNow :
    /\ NodeOf(chunk) \in gainNode.connected
    /\ NodeOf(chunk) \notin gainNode.ramped

====
